---- MODULE Spec2Model ----
(***************************************************************************)
(* The schema-driven coder of binschema as a state machine.                *)
(*                                                                         *)
(* A session is either a CoderState (src/src/coder/coder.rs) or an         *)
(* EncoderState driven through Encoder (src/src/encoder_.rs).  Both keep   *)
(* a stack of frames (schema, api_state); every operation validates the    *)
(* top frame against the schema and pushes or pops frames.                 *)
(***************************************************************************)
EXTENDS Integers, Sequences, FiniteSets, TLC

VARIABLES
    root,    \* the borrowed root schema of the session
    api,     \* "coder": CoderState session, "encoder": EncoderState session
    stack,   \* CoderState.stack / EncoderState.stack: the frames it holds
    capacity, \* slots of the allocation of that Vec (Vec::capacity)
    out,     \* bytes written to the sink W (encoder sessions)
    res,     \* result class of the last operation
    ret,     \* usize returned by the last operation (begin_enum*), else 0
    op,      \* the last operation called
    prev,    \* the stack as it was when the last operation was called
    ops,     \* history: the operations that returned Ok, in order
    pushed,  \* the last push_need call: requested schema and stack length
    wrote,   \* the bytes the last operation wrote to the sink
    begun,   \* history, per frame: children of the frame begun with success
    begunPrev, \* `begun` as it was when the last operation was called
    plan,    \* operations still to issue when a value is being traversed
    sink_faults, \* write failures the sink may still report
    input,   \* bytes left in the source R (decoder sessions)
    seen,    \* history: the error classes the session has returned
    sent,    \* history: the simple values encoded with success, in order
    decoded  \* history: the simple values decoded with success, in order

vars ==
    <<root, api, stack, capacity, out, res, ret, op, prev, ops, pushed, wrote,
      begun, begunPrev, plan, sink_faults, input, seen, sent, decoded>>

(***************************************************************************)
(* Bounds of the model.                                                    *)
(***************************************************************************)
\* deepest stack explored (recursive schemas unfold without limit)
MaxDepth == 6
\* largest sequence length a caller passes to begin_seq
MaxSeqLen == 3
\* most write failures a sink reports in one session
MaxIoErrors == 1

(***************************************************************************)
(* Schema (src/src/schema.rs).  Every schema is a record of one shape;     *)
(* the fields a variant does not carry hold a default.  `len` models       *)
(* Option<usize>: <<>> is None and <<n>> is Some(n).                       *)
(***************************************************************************)
ScalarType ==
    {"U8", "U16", "U32", "U64", "U128", "I8", "I16", "I32", "I64", "I128",
     "F32", "F64", "Char", "Bool"}

Schema(kind, ty, len, n, names, inners) ==
    [kind |-> kind, ty |-> ty, len |-> len, n |-> n,
     names |-> names, inners |-> inners]

Scalar(t) == Schema("Scalar", t, <<>>, 0, <<>>, <<>>)
Str == Schema("Str", "", <<>>, 0, <<>>, <<>>)
Bytes == Schema("Bytes", "", <<>>, 0, <<>>, <<>>)
Unit == Schema("Unit", "", <<>>, 0, <<>>, <<>>)
Option(inner) == Schema("Option", "", <<>>, 0, <<>>, <<inner>>)
SeqSchema(len, inner) == Schema("Seq", "", len, 0, <<>>, <<inner>>)
Tuple(inners) == Schema("Tuple", "", <<>>, 0, <<>>, inners)
Struct(names, inners) == Schema("Struct", "", <<>>, 0, names, inners)
Enum(names, inners) == Schema("Enum", "", <<>>, 0, names, inners)
Recurse(n) == Schema("Recurse", "", <<>>, n, <<>>, <<>>)

\* the argument of code_simple! / schema!: the 14 scalars, unit, str, bytes
SimpleTypes ==
    {"u8", "u16", "u32", "u64", "u128", "i8", "i16", "i32", "i64", "i128",
     "f32", "f64", "char", "bool", "unit", "str", "bytes"}

\* schema!(t) for the simple types
schema(t) ==
    CASE t = "u8" -> Scalar("U8")
      [] t = "u16" -> Scalar("U16")
      [] t = "u32" -> Scalar("U32")
      [] t = "u64" -> Scalar("U64")
      [] t = "u128" -> Scalar("U128")
      [] t = "i8" -> Scalar("I8")
      [] t = "i16" -> Scalar("I16")
      [] t = "i32" -> Scalar("I32")
      [] t = "i64" -> Scalar("I64")
      [] t = "i128" -> Scalar("I128")
      [] t = "f32" -> Scalar("F32")
      [] t = "f64" -> Scalar("F64")
      [] t = "char" -> Scalar("Char")
      [] t = "bool" -> Scalar("Bool")
      [] t = "unit" -> Unit
      [] t = "str" -> Str
      [] t = "bytes" -> Bytes

(***************************************************************************)
(* The root schemas a session is created with.                             *)
(***************************************************************************)
\* lib.rs test: enum { Leaf(i32), Branch({ n: i32, a: recurse(2), b: recurse(2) }) }
TreeSchema ==
    Enum(<<"Leaf", "Branch">>,
         <<Scalar("I32"),
           Struct(<<"n", "a", "b">>, <<Scalar("I32"), Recurse(2), Recurse(2)>>)>>)

\* lib.rs test: { name: str, arm_lengths: [2; f32] } (fields renamed a, b)
ReedSchema ==
    Struct(<<"a", "b">>, <<Str, SeqSchema(<<2>>, Scalar("F32"))>>)

ValidRoots ==
    { Scalar("U8"),
      Tuple(<<Scalar("U16"), Unit>>),
      Tuple(<<>>),
      ReedSchema,
      Struct(<<"a", "b">>, <<Bytes, Tuple(<<Scalar("Bool")>>)>>),
      SeqSchema(<<>>, Scalar("U32")),
      SeqSchema(<<0>>, Scalar("U8")),
      Option(Option(Str)),
      Option(Enum(<<"Leaf">>, <<Option(Scalar("U8"))>>)),
      Tuple(<<Enum(<<"Leaf", "Branch">>,
                   <<Enum(<<"Leaf">>, <<Scalar("Bool")>>), Unit>>)>>),
      TreeSchema,
      Enum(<<"Leaf", "Branch">>, <<Unit, Recurse(1)>>),
      Option(Recurse(1)) }

\* schemas whose Recurse edges are invalid or never bottom out
OddRoots ==
    { Recurse(1),
      Tuple(<<Recurse(0), Unit>>),
      Struct(<<"a", "b">>, <<Recurse(2), Unit>>),
      Enum(<<"Leaf">>, <<Recurse(0)>>),
      SeqSchema(<<1>>, Recurse(0)),
      Option(Recurse(3)),
      Tuple(<<Tuple(<<Recurse(1), Recurse(2)>>)>>),
      Enum(<<>>, <<>>),
      Recurse(0),
      Struct(<<"a">>, <<Recurse(0)>>),
      Option(Recurse(0)) }

Roots == ValidRoots \cup OddRoots

\* field and variant names a caller passes
Names == {"n", "a", "b", "Leaf", "Branch"}
\* variant ordinals a caller passes
Ords == 0..2

(***************************************************************************)
(* StackFrame and ApiState (coder.rs 22-60, encoder_.rs 87-107).  The      *)
(* encoder's NeedEncode, AutoFinishInProg, SeqInProg{declared_len,         *)
(* encoded_len}, TupleInProg{next_need} and StructInProg{next_need} are    *)
(* written Need, AutoFinish, Seq{len, next}, Tuple{next}, Struct{next}.    *)
(***************************************************************************)
StackFrame(s, state, len, next) ==
    [schema |-> s, api_state |-> state, len |-> len, next |-> next]

Need(s) == StackFrame(s, "Need", 0, 0)

Front(st) == SubSeq(st, 1, Len(st) - 1)

\* self.top(): the last frame
top(st) == st[Len(st)]

\* the stack with the top frame's api_state replaced
SetTop(st, state, len, next) ==
    [st EXCEPT ![Len(st)] = StackFrame(st[Len(st)].schema, state, len, next)]

(***************************************************************************)
(* Results.  An io::Error is classed by the prefix of its message:         *)
(*   "schema non-comformance ..."  -> SchemaNonConformance                 *)
(*   "API usage error ..."         -> ApiUsage                             *)
(*   "invalid schema: ..."         -> InvalidSchema                        *)
(* unreachable!() panics: Panic, after which the session is gone.          *)
(***************************************************************************)
Errors == {"SchemaNonConformance", "ApiUsage", "InvalidSchema"}

\* validate_top! reporting an API usage error on a Need frame (mutation)
validate_top_need_usage(st) ==
    IF st = <<>>
    THEN "ApiUsage"
    ELSE CASE top(st).api_state = "AutoFinish" -> "Panic"
           [] OTHER -> "ApiUsage"

\* validate_top! with one message for every unfinished frame (mutation)
validate_top_one_kind(st) ==
    IF st = <<>>
    THEN "ApiUsage"
    ELSE CASE top(st).api_state = "AutoFinish" -> "Panic"
           [] OTHER -> "SchemaNonConformance"

\* validate_top! without the arm for a finished coder (mutation)
validate_top_no_finished_arm(st) ==
    IF st = <<>>
    THEN "SchemaNonConformance"
    ELSE CASE top(st).api_state = "AutoFinish" -> "Panic"
           [] top(st).api_state = "Need" -> "SchemaNonConformance"
           [] OTHER -> "ApiUsage"

\* validate_top!: the error returned when the top frame does not match
validate_top(st) ==
    IF st = <<>>
    THEN "ApiUsage"
    ELSE CASE top(st).api_state = "AutoFinish" -> "Panic"
           [] top(st).api_state = "Need" -> "SchemaNonConformance"
           [] top(st).api_state = "Seq" -> "ApiUsage"
           [] top(st).api_state = "Tuple" -> "ApiUsage"
           [] top(st).api_state = "Struct" -> "ApiUsage"
           [] top(st).api_state = "Enum" -> "ApiUsage"

\* validate_need_eq! comparing only the kind of schema (mutation)
validate_need_eq_kind(st, got) ==
    /\ st # <<>>
    /\ top(st).api_state = "Need"
    /\ top(st).schema.kind = got.kind

\* validate_need_eq!: top frame is Need and its schema equals `got`
validate_need_eq(st, got) ==
    /\ st # <<>>
    /\ top(st).api_state = "Need"
    /\ top(st).schema = got

\* validate_need_matches!: top frame is Need over a schema of kind `kind`
validate_need_matches(st, kind) ==
    /\ st # <<>>
    /\ top(st).api_state = "Need"
    /\ top(st).schema.kind = kind

\* validate_top_matches!: top frame is in api_state `state`
validate_top_matches(st, state) ==
    /\ st # <<>>
    /\ top(st).api_state = state

(***************************************************************************)
(* push_need: resolve Recurse against the live stack, then push Need.      *)
(* `i` is the loop variable; st[k + 1] is the code's self.stack[k].        *)
(***************************************************************************)
RECURSIVE resolve(_, _, _)
resolve(st, s, i) ==
    IF s.kind = "Recurse"
    THEN IF ~(s.n > 0)
         THEN [ok |-> FALSE, schema |-> s]
         ELSE IF i - s.n < 0
              THEN [ok |-> FALSE, schema |-> s]
              ELSE resolve(st, st[(i - s.n) + 1].schema, i - s.n)
    ELSE [ok |-> TRUE, schema |-> s]

\* push_need counting from the top frame, not the frame pushed (mutation)
push_need_from_top(st, s) ==
    LET r == resolve(st, s, Len(st) - 1)
    IN  IF r.ok
        THEN [res |-> "Ok", stack |-> Append(st, Need(r.schema))]
        ELSE [res |-> "InvalidSchema", stack |-> st]

\* push_need that pushes the requested schema as it is (mutation)
push_need_unresolved(st, s) ==
    [res |-> "Ok", stack |-> Append(st, Need(s))]

\* push_need without ensure!(n > 0): level 0 indexes the stack at its
\* length, which panics (mutation)
push_need_level_unchecked(st, s) ==
    IF s.kind = "Recurse" /\ s.n = 0
    THEN [res |-> "Panic", stack |-> st]
    ELSE LET r == resolve(st, s, Len(st))
         IN  IF r.ok
             THEN [res |-> "Ok", stack |-> Append(st, Need(r.schema))]
             ELSE [res |-> "InvalidSchema", stack |-> st]

push_need(st, s) ==
    LET r == resolve(st, s, Len(st))
    IN  IF r.ok
        THEN [res |-> "Ok", stack |-> Append(st, Need(r.schema))]
        ELSE [res |-> "InvalidSchema", stack |-> st]

\* Encoder::push_need_encode is the same code over EncoderState.stack
push_need_encode(st, s) == push_need(st, s)

(***************************************************************************)
(* pop: drop the top frame, then every AutoFinish frame that is now on top *)
(***************************************************************************)
RECURSIVE pop_auto_finish(_)
pop_auto_finish(st) ==
    IF st # <<>> /\ top(st).api_state = "AutoFinish"
    THEN pop_auto_finish(Front(st))
    ELSE st

\* pop that leaves the AutoFinish frames (mutation)
pop_one(st) == Front(st)

pop(st) == pop_auto_finish(Front(st))

\* Encoder::pop is the same code over EncoderState.stack
Encoder_pop(st) == pop(st)

is_finished == stack = <<>>

is_finished_or_err == IF is_finished THEN "Ok" ELSE "ApiUsage"

(***************************************************************************)
(* Operation records and bookkeeping                                       *)
(***************************************************************************)
Op(name, ty, fname, ord, len) ==
    [name |-> name, ty |-> ty, fname |-> fname, ord |-> ord, len |-> len]

NoOp == Op("new", "", "", 0, 0)
NoPush == [called |-> FALSE, req |-> Unit, at |-> 0]
PushOf(s, st) == [called |-> TRUE, req |-> s, at |-> Len(st)]

\* a panicked session takes no further calls
Alive == res # "Panic"

\* the capacity of a Vec of `cap` slots once it holds len frames: push
\* reserves at least twice the allocation and at least 4 slots
grow(cap, len) ==
    IF len <= cap
    THEN cap
    ELSE IF 2 * cap >= len /\ 2 * cap >= 4 THEN 2 * cap
         ELSE IF len >= 4 THEN len ELSE 4

\* the capacity of a Vec::new() after n pushes
RECURSIVE pushed_capacity(_)
pushed_capacity(n) ==
    IF n = 0 THEN 0 ELSE grow(pushed_capacity(n - 1), n)

\* an operation returns: result r, returned usize n, new stack st, bytes b
\* written, push_need call p; v is <<>> or <<x>>, x the simple value the
\* operation encoded or decoded, and inp the bytes left in the source
ReturnV(o, r, n, st, b, p, v, inp) ==
    /\ op' = o
    /\ res' = r
    /\ ret' = n
    /\ stack' = st
    /\ capacity' = grow(capacity, Len(st))
    /\ out' = out \o b
    /\ prev' = stack
    /\ ops' = IF r = "Ok" THEN Append(ops, o) ELSE ops
    /\ pushed' = p
    /\ wrote' = b
    /\ begunPrev' = begun
    /\ begun' = IF Len(st) = Len(stack) + 1
                THEN Append([begun EXCEPT ![Len(stack)] =
                                @ + (IF r = "Ok" THEN 1 ELSE 0)], 0)
                ELSE IF Len(st) < Len(stack)
                     THEN SubSeq(begun, 1, Len(st))
                     ELSE begun
    /\ sink_faults' = IF /\ r = "Io"
                         /\ \/ api = "encoder"
                            \/ o.name = "begin_enum_variant"
                      THEN sink_faults - 1
                      ELSE sink_faults
    /\ input' = inp
    /\ seen' = IF r = "Ok" THEN seen ELSE seen \cup {r}
    /\ sent' = IF r = "Ok" /\ api = "encoder" THEN sent \o v ELSE sent
    /\ decoded' = IF r = "Ok" /\ api = "decoder"
                  THEN decoded \o v
                  ELSE decoded
    /\ UNCHANGED <<root, api>>

\* an operation that neither reads the source nor codes a simple value
Return(o, r, n, st, b, p) == ReturnV(o, r, n, st, b, p, <<>>, input)

(***************************************************************************)
(* CoderState operations (coder.rs)                                        *)
(***************************************************************************)
\* code_simple!: code_u8 .. code_bytes
code_simple(t) ==
    /\ api = "coder" /\ Alive
    /\ IF validate_need_eq(stack, schema(t))
       THEN Return(Op("code", t, "", 0, 0), "Ok", 0, pop(stack), <<>>, NoPush)
       ELSE Return(Op("code", t, "", 0, 0), validate_top(stack), 0, stack,
                   <<>>, NoPush)

\* begin_tuple that does not look at the schema of the Need frame (mutation)
begin_tuple_any_schema ==
    /\ api = "coder" /\ Alive
    /\ IF validate_top_matches(stack, "Need")
       THEN Return(Op("begin_tuple", "", "", 0, 0), "Ok", 0,
                   SetTop(stack, "Tuple", 0, 0), <<>>, NoPush)
       ELSE Return(Op("begin_tuple", "", "", 0, 0), validate_top(stack), 0,
                   stack, <<>>, NoPush)

begin_tuple ==
    /\ api = "coder" /\ Alive
    /\ IF validate_need_matches(stack, "Tuple")
       THEN Return(Op("begin_tuple", "", "", 0, 0), "Ok", 0,
                   SetTop(stack, "Tuple", 0, 0), <<>>, NoPush)
       ELSE Return(Op("begin_tuple", "", "", 0, 0), validate_top(stack), 0,
                   stack, <<>>, NoPush)

\* begin_tuple_elem that pushes the element without `*next += 1` (mutation)
begin_tuple_elem_no_advance ==
    /\ api = "coder" /\ Alive /\ Len(stack) < MaxDepth
    /\ LET o == Op("begin_tuple_elem", "", "", 0, 0) IN
       IF ~validate_top_matches(stack, "Tuple")
       THEN Return(o, validate_top(stack), 0, stack, <<>>, NoPush)
       ELSE LET inners == top(stack).schema.inners
                next == top(stack).next
            IN  IF ~(next < Len(inners))
                THEN Return(o, "SchemaNonConformance", 0, stack, <<>>, NoPush)
                ELSE LET st1 == stack
                         p == push_need(st1, inners[next + 1])
                     IN  Return(o, p.res, 0, p.stack, <<>>,
                                PushOf(inners[next + 1], st1))

begin_tuple_elem ==
    /\ api = "coder" /\ Alive /\ Len(stack) < MaxDepth
    /\ LET o == Op("begin_tuple_elem", "", "", 0, 0) IN
       IF ~validate_top_matches(stack, "Tuple")
       THEN Return(o, validate_top(stack), 0, stack, <<>>, NoPush)
       ELSE LET inners == top(stack).schema.inners
                next == top(stack).next
            IN  IF ~(next < Len(inners))
                THEN Return(o, "SchemaNonConformance", 0, stack, <<>>, NoPush)
                ELSE LET st1 == SetTop(stack, "Tuple", 0, next + 1)
                         p == push_need(st1, inners[next + 1])
                     IN  Return(o, p.res, 0, p.stack, <<>>,
                                PushOf(inners[next + 1], st1))

\* finish_tuple without the ensure! on the element count (mutation)
finish_tuple_unchecked ==
    /\ api = "coder" /\ Alive
    /\ LET o == Op("finish_tuple", "", "", 0, 0) IN
       IF ~validate_top_matches(stack, "Tuple")
       THEN Return(o, validate_top(stack), 0, stack, <<>>, NoPush)
       ELSE Return(o, "Ok", 0, pop(stack), <<>>, NoPush)

finish_tuple ==
    /\ api = "coder" /\ Alive
    /\ LET o == Op("finish_tuple", "", "", 0, 0) IN
       IF ~validate_top_matches(stack, "Tuple")
       THEN Return(o, validate_top(stack), 0, stack, <<>>, NoPush)
       ELSE IF ~(Len(top(stack).schema.inners) = top(stack).next)
            THEN Return(o, "SchemaNonConformance", 0, stack, <<>>, NoPush)
            ELSE Return(o, "Ok", 0, pop(stack), <<>>, NoPush)

begin_struct ==
    /\ api = "coder" /\ Alive
    /\ IF validate_need_matches(stack, "Struct")
       THEN Return(Op("begin_struct", "", "", 0, 0), "Ok", 0,
                   SetTop(stack, "Struct", 0, 0), <<>>, NoPush)
       ELSE Return(Op("begin_struct", "", "", 0, 0), validate_top(stack), 0,
                   stack, <<>>, NoPush)

begin_struct_field(name) ==
    /\ api = "coder" /\ Alive /\ Len(stack) < MaxDepth
    /\ LET o == Op("begin_struct_field", "", name, 0, 0) IN
       IF ~validate_top_matches(stack, "Struct")
       THEN Return(o, validate_top(stack), 0, stack, <<>>, NoPush)
       ELSE LET fields == top(stack).schema
                next == top(stack).next
            IN  IF ~(next < Len(fields.inners))
                THEN Return(o, "SchemaNonConformance", 0, stack, <<>>, NoPush)
                ELSE IF ~(fields.names[next + 1] = name)
                THEN Return(o, "SchemaNonConformance", 0, stack, <<>>, NoPush)
                ELSE LET st1 == SetTop(stack, "Struct", 0, next + 1)
                         p == push_need(st1, fields.inners[next + 1])
                     IN  Return(o, p.res, 0, p.stack, <<>>,
                                PushOf(fields.inners[next + 1], st1))

finish_struct ==
    /\ api = "coder" /\ Alive
    /\ LET o == Op("finish_struct", "", "", 0, 0) IN
       IF ~validate_top_matches(stack, "Struct")
       THEN Return(o, validate_top(stack), 0, stack, <<>>, NoPush)
       ELSE IF ~(Len(top(stack).schema.inners) = top(stack).next)
            THEN Return(o, "SchemaNonConformance", 0, stack, <<>>, NoPush)
            ELSE Return(o, "Ok", 0, pop(stack), <<>>, NoPush)

begin_enum ==
    /\ api = "coder" /\ Alive
    /\ IF validate_need_matches(stack, "Enum")
       THEN Return(Op("begin_enum", "", "", 0, 0), "Ok",
                   Len(top(stack).schema.inners),
                   SetTop(stack, "Enum", 0, 0), <<>>, NoPush)
       ELSE Return(Op("begin_enum", "", "", 0, 0), validate_top(stack), 0,
                   stack, <<>>, NoPush)

\* begin_enum_variant that does not compare the name (mutation)
get_variant_by_ord(variants, variant_ord, variant_name) ==
    IF ~(variant_ord < Len(variants.inners))
    THEN "SchemaNonConformance"
    ELSE "Ok"

\* variants.get(variant_ord) and the ensure! on the variant's name
get_variant(variants, variant_ord, variant_name) ==
    IF ~(variant_ord < Len(variants.inners))
    THEN "SchemaNonConformance"
    ELSE IF ~(variant_name = variants.names[variant_ord + 1])
         THEN "SchemaNonConformance"
         ELSE "Ok"

begin_enum_variant(variant_ord, variant_name) ==
    /\ api = "coder" /\ Alive /\ Len(stack) < MaxDepth
    /\ LET o == Op("begin_enum_variant", "", variant_name, variant_ord, 0) IN
       IF ~validate_top_matches(stack, "Enum")
       THEN Return(o, validate_top(stack), 0, stack, <<>>, NoPush)
       ELSE LET variants == top(stack).schema
                got == get_variant(variants, variant_ord, variant_name)
            IN  IF got # "Ok"
                THEN Return(o, got, 0, stack, <<>>, NoPush)
                ELSE LET st1 == SetTop(stack, "AutoFinish", 0, 0)
                         p == push_need(st1, variants.inners[variant_ord + 1])
                     IN  Return(o, p.res,
                                IF p.res = "Ok" THEN Len(variants.inners) ELSE 0,
                                p.stack, <<>>,
                                PushOf(variants.inners[variant_ord + 1], st1))

(***************************************************************************)
(* Variable-length integer codec (crate::var_len)                          *)
(***************************************************************************)
\* n.to_le_bytes() for a value of `size` bytes
RECURSIVE to_le_bytes(_, _)
to_le_bytes(n, size) ==
    IF size = 0 THEN <<>> ELSE <<n % 256>> \o to_le_bytes(n \div 256, size - 1)

\* continuation-bit encoding, least significant group first
RECURSIVE write_var_len_uint(_)
write_var_len_uint(n) ==
    IF n < 128
    THEN <<n>>
    ELSE <<(n % 128) + 128>> \o write_var_len_uint(n \div 128)

\* zig-zag, then the unsigned encoding
write_var_len_sint(n) ==
    write_var_len_uint(IF n >= 0 THEN 2 * n ELSE (-2 * n) - 1)

\* number of bytes of an ordinal in [0, num): ceil(log256(num)), 0 for num <= 1
RECURSIVE ord_width(_)
ord_width(num) ==
    IF num <= 1 THEN 0 ELSE 1 + ord_width((num + 255) \div 256)

write_ord(ord, num) == to_le_bytes(ord, ord_width(num))

(***************************************************************************)
(* Encoder operations (encoder_.rs)                                        *)
(***************************************************************************)
\* the values a caller encodes, per simple type; unit has the one value 0,
\* floats are given by their bit pattern, signed integers of fixed width by their two's complement,
\* str and bytes by their bytes
Values(t) ==
    CASE t = "bool" -> {0, 1}
      [] t = "str" -> {<<104, 105>>}
      [] t = "bytes" -> {<<0, 255>>}
      [] t = "u32" -> {128}
      [] t = "i32" -> {-3}
      [] t = "u16" -> {258}
      [] t = "unit" -> {0}
      [] OTHER -> {7}

\* the bytes encode_<t>(v) writes
encoding(t, v) ==
    CASE t \in {"u8", "i8"} -> to_le_bytes(v, 1)
      [] t \in {"u16", "i16"} -> to_le_bytes(v, 2)
      [] t = "f32" -> to_le_bytes(v, 4)
      [] t = "f64" -> to_le_bytes(v, 8)
      [] t \in {"u32", "u64", "u128"} -> write_var_len_uint(v)
      [] t \in {"i32", "i64", "i128"} -> write_var_len_sint(v)
      [] t = "char" -> to_le_bytes(v, 4)
      [] t = "bool" -> <<v>>
      [] t = "unit" -> <<>>
      [] t \in {"str", "bytes"} -> write_var_len_uint(Len(v)) \o v

\* Encoder::write and the var_len writers, when the sink reports an error:
\* write_all has put some proper prefix of the bytes b into the sink, the `?`
\* returns the io::Error and the operation goes no further
SinkFault(o, b) ==
    /\ sink_faults > 0
    /\ b # <<>>
    /\ \E k \in 0..(Len(b) - 1) :
          ReturnV(o, "Io", 0, stack, SubSeq(b, 1, k), NoPush, <<>>, input)

\* encode_le_bytes!, encode_var_len_uint!, encode_var_len_sint!, encode_char,
\* encode_bool, encode_unit, encode_str, encode_bytes
encode_simple(t, v) ==
    /\ api = "encoder" /\ Alive
    /\ IF validate_need_eq(stack, schema(t))
       THEN \/ ReturnV(Op("encode", t, "", 0, 0), "Ok", 0,
                       Encoder_pop(stack), encoding(t, v), NoPush, <<v>>,
                       input)
            \/ SinkFault(Op("encode", t, "", 0, 0), encoding(t, v))
       ELSE Return(Op("encode", t, "", 0, 0), validate_top(stack), 0, stack,
                   <<>>, NoPush)

encode_none ==
    /\ api = "encoder" /\ Alive
    /\ IF validate_need_matches(stack, "Option")
       THEN \/ Return(Op("encode_none", "", "", 0, 0), "Ok", 0,
                      Encoder_pop(stack), <<0>>, NoPush)
            \/ SinkFault(Op("encode_none", "", "", 0, 0), <<0>>)
       ELSE Return(Op("encode_none", "", "", 0, 0), validate_top(stack), 0,
                   stack, <<>>, NoPush)

\* begin_some writing the tag of none (mutation)
begin_some_none_tag ==
    /\ api = "encoder" /\ Alive /\ Len(stack) < MaxDepth
    /\ LET o == Op("begin_some", "", "", 0, 0) IN
       IF ~validate_need_matches(stack, "Option")
       THEN Return(o, validate_top(stack), 0, stack, <<>>, NoPush)
       ELSE LET inner == top(stack).schema.inners[1]
                st1 == SetTop(stack, "AutoFinish", 0, 0)
                p == push_need_encode(st1, inner)
            IN  \/ Return(o, p.res, 0, p.stack, <<0>>, PushOf(inner, st1))
                \/ SinkFault(o, <<0>>)

begin_some ==
    /\ api = "encoder" /\ Alive /\ Len(stack) < MaxDepth
    /\ LET o == Op("begin_some", "", "", 0, 0) IN
       IF ~validate_need_matches(stack, "Option")
       THEN Return(o, validate_top(stack), 0, stack, <<>>, NoPush)
       ELSE LET inner == top(stack).schema.inners[1]
                st1 == SetTop(stack, "AutoFinish", 0, 0)
                p == push_need_encode(st1, inner)
            IN  \/ Return(o, p.res, 0, p.stack, <<1>>, PushOf(inner, st1))
                \/ SinkFault(o, <<1>>)

\* begin_seq that takes any length for a fixed-length Seq (mutation)
check_seq_len_any(need_len, len) == TRUE

\* if let Some(need_len) = need_len { ensure!(need_len == len) }
check_seq_len(need_len, len) ==
    need_len = <<>> \/ need_len[1] = len

\* begin_seq writing the length whether the Seq is of fixed length or not
\* (mutation)
begin_seq_len_always(len) ==
    /\ api = "encoder" /\ Alive
    /\ LET o == Op("begin_seq", "", "", 0, len) IN
       IF ~validate_need_matches(stack, "Seq")
       THEN Return(o, validate_top(stack), 0, stack, <<>>, NoPush)
       ELSE LET need_len == top(stack).schema.len
            IN  IF ~check_seq_len(need_len, len)
                THEN Return(o, "SchemaNonConformance", 0, stack, <<>>, NoPush)
                ELSE \/ Return(o, "Ok", 0, SetTop(stack, "Seq", len, 0),
                               write_var_len_uint(len), NoPush)
                     \/ SinkFault(o, write_var_len_uint(len))

begin_seq(len) ==
    /\ api = "encoder" /\ Alive
    /\ LET o == Op("begin_seq", "", "", 0, len) IN
       IF ~validate_need_matches(stack, "Seq")
       THEN Return(o, validate_top(stack), 0, stack, <<>>, NoPush)
       ELSE LET need_len == top(stack).schema.len
            IN  IF ~check_seq_len(need_len, len)
                THEN Return(o, "SchemaNonConformance", 0, stack, <<>>, NoPush)
                ELSE LET b == IF need_len # <<>>
                                 THEN <<>>
                                 ELSE write_var_len_uint(len)
                     IN  \/ Return(o, "Ok", 0, SetTop(stack, "Seq", len, 0),
                                   b, NoPush)
                         \/ SinkFault(o, b)

\* begin_seq_elem without the ensure! on the declared length (mutation)
begin_seq_elem_unbounded ==
    /\ api = "encoder" /\ Alive /\ Len(stack) < MaxDepth
    /\ LET o == Op("begin_seq_elem", "", "", 0, 0) IN
       IF ~validate_top_matches(stack, "Seq")
       THEN Return(o, validate_top(stack), 0, stack, <<>>, NoPush)
       ELSE LET declared_len == top(stack).len
                encoded_len == top(stack).next
                inner == top(stack).schema.inners[1]
            IN  IF FALSE
                THEN Return(o, "ApiUsage", 0, stack, <<>>, NoPush)
                ELSE LET st1 == SetTop(stack, "Seq", declared_len,
                                       encoded_len + 1)
                         p == push_need_encode(st1, inner)
                     IN  Return(o, p.res, 0, p.stack, <<>>, PushOf(inner, st1))

begin_seq_elem ==
    /\ api = "encoder" /\ Alive /\ Len(stack) < MaxDepth
    /\ LET o == Op("begin_seq_elem", "", "", 0, 0) IN
       IF ~validate_top_matches(stack, "Seq")
       THEN Return(o, validate_top(stack), 0, stack, <<>>, NoPush)
       ELSE LET declared_len == top(stack).len
                encoded_len == top(stack).next
                inner == top(stack).schema.inners[1]
            IN  IF ~(encoded_len + 1 <= declared_len)
                THEN Return(o, "ApiUsage", 0, stack, <<>>, NoPush)
                ELSE LET st1 == SetTop(stack, "Seq", declared_len,
                                       encoded_len + 1)
                         p == push_need_encode(st1, inner)
                     IN  Return(o, p.res, 0, p.stack, <<>>, PushOf(inner, st1))

finish_seq ==
    /\ api = "encoder" /\ Alive
    /\ LET o == Op("finish_seq", "", "", 0, 0) IN
       IF ~validate_top_matches(stack, "Seq")
       THEN Return(o, validate_top(stack), 0, stack, <<>>, NoPush)
       ELSE IF ~(top(stack).next = top(stack).len)
            THEN Return(o, "ApiUsage", 0, stack, <<>>, NoPush)
            ELSE Return(o, "Ok", 0, Encoder_pop(stack), <<>>, NoPush)

Encoder_begin_tuple ==
    /\ api = "encoder" /\ Alive
    /\ IF validate_need_matches(stack, "Tuple")
       THEN Return(Op("begin_tuple", "", "", 0, 0), "Ok", 0,
                   SetTop(stack, "Tuple", 0, 0), <<>>, NoPush)
       ELSE Return(Op("begin_tuple", "", "", 0, 0), validate_top(stack), 0,
                   stack, <<>>, NoPush)

Encoder_begin_tuple_elem ==
    /\ api = "encoder" /\ Alive /\ Len(stack) < MaxDepth
    /\ LET o == Op("begin_tuple_elem", "", "", 0, 0) IN
       IF ~validate_top_matches(stack, "Tuple")
       THEN Return(o, validate_top(stack), 0, stack, <<>>, NoPush)
       ELSE LET inners == top(stack).schema.inners
                next_need == top(stack).next
            IN  IF ~(next_need < Len(inners))
                THEN Return(o, "SchemaNonConformance", 0, stack, <<>>, NoPush)
                ELSE LET st1 == SetTop(stack, "Tuple", 0, next_need + 1)
                         p == push_need_encode(st1, inners[next_need + 1])
                     IN  Return(o, p.res, 0, p.stack, <<>>,
                                PushOf(inners[next_need + 1], st1))

Encoder_finish_tuple ==
    /\ api = "encoder" /\ Alive
    /\ LET o == Op("finish_tuple", "", "", 0, 0) IN
       IF ~validate_top_matches(stack, "Tuple")
       THEN Return(o, validate_top(stack), 0, stack, <<>>, NoPush)
       ELSE IF ~(Len(top(stack).schema.inners) = top(stack).next)
            THEN Return(o, "SchemaNonConformance", 0, stack, <<>>, NoPush)
            ELSE Return(o, "Ok", 0, Encoder_pop(stack), <<>>, NoPush)

Encoder_begin_struct ==
    /\ api = "encoder" /\ Alive
    /\ IF validate_need_matches(stack, "Struct")
       THEN Return(Op("begin_struct", "", "", 0, 0), "Ok", 0,
                   SetTop(stack, "Struct", 0, 0), <<>>, NoPush)
       ELSE Return(Op("begin_struct", "", "", 0, 0), validate_top(stack), 0,
                   stack, <<>>, NoPush)

\* begin_struct_field that takes any name for the next field (mutation)
Encoder_begin_struct_field_any_name(name) ==
    /\ api = "encoder" /\ Alive /\ Len(stack) < MaxDepth
    /\ LET o == Op("begin_struct_field", "", name, 0, 0) IN
       IF ~validate_top_matches(stack, "Struct")
       THEN Return(o, validate_top(stack), 0, stack, <<>>, NoPush)
       ELSE LET fields == top(stack).schema
                next_need == top(stack).next
            IN  IF ~(next_need < Len(fields.inners))
                THEN Return(o, "SchemaNonConformance", 0, stack, <<>>, NoPush)
                ELSE IF FALSE
                THEN Return(o, "SchemaNonConformance", 0, stack, <<>>, NoPush)
                ELSE LET st1 == SetTop(stack, "Struct", 0, next_need + 1)
                         p == push_need_encode(st1, fields.inners[next_need + 1])
                     IN  Return(o, p.res, 0, p.stack, <<>>,
                                PushOf(fields.inners[next_need + 1], st1))

Encoder_begin_struct_field(name) ==
    /\ api = "encoder" /\ Alive /\ Len(stack) < MaxDepth
    /\ LET o == Op("begin_struct_field", "", name, 0, 0) IN
       IF ~validate_top_matches(stack, "Struct")
       THEN Return(o, validate_top(stack), 0, stack, <<>>, NoPush)
       ELSE LET fields == top(stack).schema
                next_need == top(stack).next
            IN  IF ~(next_need < Len(fields.inners))
                THEN Return(o, "SchemaNonConformance", 0, stack, <<>>, NoPush)
                ELSE IF ~(fields.names[next_need + 1] = name)
                THEN Return(o, "SchemaNonConformance", 0, stack, <<>>, NoPush)
                ELSE LET st1 == SetTop(stack, "Struct", 0, next_need + 1)
                         p == push_need_encode(st1, fields.inners[next_need + 1])
                     IN  Return(o, p.res, 0, p.stack, <<>>,
                                PushOf(fields.inners[next_need + 1], st1))

Encoder_finish_struct ==
    /\ api = "encoder" /\ Alive
    /\ LET o == Op("finish_struct", "", "", 0, 0) IN
       IF ~validate_top_matches(stack, "Struct")
       THEN Return(o, validate_top(stack), 0, stack, <<>>, NoPush)
       ELSE IF ~(Len(top(stack).schema.inners) = top(stack).next)
            THEN Return(o, "SchemaNonConformance", 0, stack, <<>>, NoPush)
            ELSE Return(o, "Ok", 0, Encoder_pop(stack), <<>>, NoPush)

Encoder_begin_enum(variant_ord, variant_name) ==
    /\ api = "encoder" /\ Alive /\ Len(stack) < MaxDepth
    /\ LET o == Op("begin_enum", "", variant_name, variant_ord, 0) IN
       IF ~validate_need_matches(stack, "Enum")
       THEN Return(o, validate_top(stack), 0, stack, <<>>, NoPush)
       ELSE LET variants == top(stack).schema
            IN  IF ~(variant_ord < Len(variants.inners))
                THEN Return(o, "SchemaNonConformance", 0, stack, <<>>, NoPush)
                ELSE IF ~(variant_name = variants.names[variant_ord + 1])
                THEN Return(o, "SchemaNonConformance", 0, stack, <<>>, NoPush)
                ELSE LET st1 == SetTop(stack, "AutoFinish", 0, 0)
                         p == push_need_encode(st1,
                                               variants.inners[variant_ord + 1])
                         b == write_ord(variant_ord, Len(variants.inners))
                     IN  \/ Return(o, p.res, 0, p.stack, b,
                                   PushOf(variants.inners[variant_ord + 1],
                                          st1))
                         \/ SinkFault(o, b)

(***************************************************************************)
(* Decoder operations (decoder.rs): a CoderState and a byte source R.      *)
(* Every method advances the CoderState first and then reads.              *)
(***************************************************************************)
\* $t::from_le_bytes
RECURSIVE from_le_bytes(_)
from_le_bytes(b) ==
    IF b = <<>> THEN 0 ELSE b[1] + 256 * from_le_bytes(Tail(b))

\* what a read leaves of the source b: [ok, val, rest]
ReadResult(ok, val, rest) == [ok |-> ok, val |-> val, rest |-> rest]

\* Decoder::read: read_exact of `size` bytes.  At end of file read_exact
\* returns an error and does not say how much of the source it took.
read(b, size) ==
    IF Len(b) >= size
    THEN {ReadResult("Ok", SubSeq(b, 1, size), SubSeq(b, size + 1, Len(b)))}
    ELSE {ReadResult("Io", <<>>, b), ReadResult("Io", <<>>, <<>>)}

\* continuation-bit decoding, least significant group first
RECURSIVE read_var_len_uint(_)
read_var_len_uint(b) ==
    IF b = <<>>
    THEN ReadResult("Io", 0, <<>>)
    ELSE IF b[1] < 128
         THEN ReadResult("Ok", b[1], Tail(b))
         ELSE LET r == read_var_len_uint(Tail(b))
              IN  IF r.ok = "Ok"
                  THEN ReadResult("Ok", (b[1] - 128) + 128 * r.val, r.rest)
                  ELSE r

\* the unsigned decoding, then zig-zag undone
read_var_len_sint(b) ==
    LET r == read_var_len_uint(b)
    IN  IF r.ok = "Ok"
        THEN ReadResult("Ok",
                  IF r.val % 2 = 0 THEN r.val \div 2 ELSE -((r.val + 1) \div 2),
                  r.rest)
        ELSE r

\* $t::try_from(n) of decode_var_len_uint! / decode_var_len_sint!; the
\* integers of the model lie within i32, below every upper limit
in_range(t, n) ==
    CASE t \in {"u32", "u64", "u128"} -> n >= 0
      [] OTHER -> TRUE

\* char::from_u32
is_char(n) == n < 55296 \/ (n > 57343 /\ n < 1114112)

\* a continuation byte of a multi-byte form whose value lies in lo..hi
utf8_cont(b, i, lo, hi) == Len(b) >= i /\ b[i] >= lo /\ b[i] <= hi

\* length of the well-formed UTF-8 form that starts b, 0 when there is none:
\* overlong forms, surrogates and code points above U+10FFFF are refused
utf8_char_width(b) ==
    LET first == b[1] IN
    IF first < 128 THEN 1
    ELSE IF first >= 194 /\ first <= 223
    THEN IF utf8_cont(b, 2, 128, 191) THEN 2 ELSE 0
    ELSE IF first >= 224 /\ first <= 239
    THEN IF /\ utf8_cont(b, 2, IF first = 224 THEN 160 ELSE 128,
                             IF first = 237 THEN 159 ELSE 191)
            /\ utf8_cont(b, 3, 128, 191)
         THEN 3 ELSE 0
    ELSE IF first >= 240 /\ first <= 244
    THEN IF /\ utf8_cont(b, 2, IF first = 240 THEN 144 ELSE 128,
                             IF first = 244 THEN 143 ELSE 191)
            /\ utf8_cont(b, 3, 128, 191)
            /\ utf8_cont(b, 4, 128, 191)
         THEN 4 ELSE 0
    ELSE 0

\* String::from_utf8(..).is_ok()
RECURSIVE is_utf8(_)
is_utf8(b) ==
    IF b = <<>>
    THEN TRUE
    ELSE LET w == utf8_char_width(b) IN
         /\ w > 0
         /\ is_utf8(SubSeq(b, w + 1, Len(b)))

\* read_len, then read_exact of that many bytes (decode_str_into,
\* decode_bytes_into)
read_len_then_bytes(b) ==
    LET l == read_var_len_uint(b)
    IN  IF l.ok # "Ok"
        THEN {l}
        ELSE read(l.rest, l.val)

\* payload validation once the bytes are read
validate_payload(t, r) ==
    IF r.ok # "Ok"
    THEN r
    ELSE CASE t = "bool" ->
                IF r.val \in {0, 1} THEN r ELSE ReadResult("Malformed", 0, r.rest)
           [] t = "char" ->
                IF is_char(r.val) THEN r ELSE ReadResult("Malformed", 0, r.rest)
           [] t \in {"u32", "u64", "u128", "i32", "i64", "i128"} ->
                IF in_range(t, r.val) THEN r ELSE ReadResult("Malformed", 0, r.rest)
           [] t = "str" ->
                IF is_utf8(r.val) THEN r ELSE ReadResult("Malformed", <<>>, r.rest)
           [] OTHER -> r

\* the reads of decode_<t> on the source b, after the CoderState advanced
reading(t, b) ==
    LET le(size) == {ReadResult(r.ok, from_le_bytes(r.val), r.rest) :
                        r \in read(b, size)}
        raw == CASE t \in {"u8", "i8", "bool"} -> le(1)
                 [] t \in {"u16", "i16"} -> le(2)
                 [] t \in {"f32", "char"} -> le(4)
                 [] t = "f64" -> le(8)
                 [] t \in {"u32", "u64", "u128"} -> {read_var_len_uint(b)}
                 [] t \in {"i32", "i64", "i128"} -> {read_var_len_sint(b)}
                 [] t = "unit" -> {ReadResult("Ok", 0, b)}
                 [] t \in {"str", "bytes"} -> read_len_then_bytes(b)
    IN  {validate_payload(t, r) : r \in raw}

\* decode_le_bytes!, decode_var_len_uint!, decode_var_len_sint!, decode_char,
\* decode_bool, decode_unit, decode_str, decode_bytes
decode_simple(t) ==
    /\ api = "decoder" /\ Alive
    /\ LET o == Op("decode", t, "", 0, 0) IN
       IF ~validate_need_eq(stack, schema(t))
       THEN Return(o, validate_top(stack), 0, stack, <<>>, NoPush)
       ELSE \E r \in reading(t, input) :
               ReturnV(o, r.ok, 0, pop(stack), <<>>, NoPush,
                       IF r.ok = "Ok" THEN <<r.val>> ELSE <<>>, r.rest)

Decoder_begin_tuple ==
    /\ api = "decoder" /\ Alive
    /\ IF validate_need_matches(stack, "Tuple")
       THEN Return(Op("begin_tuple", "", "", 0, 0), "Ok", 0,
                   SetTop(stack, "Tuple", 0, 0), <<>>, NoPush)
       ELSE Return(Op("begin_tuple", "", "", 0, 0), validate_top(stack), 0,
                   stack, <<>>, NoPush)

Decoder_begin_tuple_elem ==
    /\ api = "decoder" /\ Alive /\ Len(stack) < MaxDepth
    /\ LET o == Op("begin_tuple_elem", "", "", 0, 0) IN
       IF ~validate_top_matches(stack, "Tuple")
       THEN Return(o, validate_top(stack), 0, stack, <<>>, NoPush)
       ELSE LET inners == top(stack).schema.inners
                next == top(stack).next
            IN  IF ~(next < Len(inners))
                THEN Return(o, "SchemaNonConformance", 0, stack, <<>>, NoPush)
                ELSE LET st1 == SetTop(stack, "Tuple", 0, next + 1)
                         p == push_need(st1, inners[next + 1])
                     IN  Return(o, p.res, 0, p.stack, <<>>,
                                PushOf(inners[next + 1], st1))

Decoder_finish_tuple ==
    /\ api = "decoder" /\ Alive
    /\ LET o == Op("finish_tuple", "", "", 0, 0) IN
       IF ~validate_top_matches(stack, "Tuple")
       THEN Return(o, validate_top(stack), 0, stack, <<>>, NoPush)
       ELSE IF ~(Len(top(stack).schema.inners) = top(stack).next)
            THEN Return(o, "SchemaNonConformance", 0, stack, <<>>, NoPush)
            ELSE Return(o, "Ok", 0, pop(stack), <<>>, NoPush)

Decoder_begin_struct ==
    /\ api = "decoder" /\ Alive
    /\ IF validate_need_matches(stack, "Struct")
       THEN Return(Op("begin_struct", "", "", 0, 0), "Ok", 0,
                   SetTop(stack, "Struct", 0, 0), <<>>, NoPush)
       ELSE Return(Op("begin_struct", "", "", 0, 0), validate_top(stack), 0,
                   stack, <<>>, NoPush)

Decoder_begin_struct_field(name) ==
    /\ api = "decoder" /\ Alive /\ Len(stack) < MaxDepth
    /\ LET o == Op("begin_struct_field", "", name, 0, 0) IN
       IF ~validate_top_matches(stack, "Struct")
       THEN Return(o, validate_top(stack), 0, stack, <<>>, NoPush)
       ELSE LET fields == top(stack).schema
                next == top(stack).next
            IN  IF ~(next < Len(fields.inners))
                THEN Return(o, "SchemaNonConformance", 0, stack, <<>>, NoPush)
                ELSE IF ~(fields.names[next + 1] = name)
                THEN Return(o, "SchemaNonConformance", 0, stack, <<>>, NoPush)
                ELSE LET st1 == SetTop(stack, "Struct", 0, next + 1)
                         p == push_need(st1, fields.inners[next + 1])
                     IN  Return(o, p.res, 0, p.stack, <<>>,
                                PushOf(fields.inners[next + 1], st1))

Decoder_finish_struct ==
    /\ api = "decoder" /\ Alive
    /\ LET o == Op("finish_struct", "", "", 0, 0) IN
       IF ~validate_top_matches(stack, "Struct")
       THEN Return(o, validate_top(stack), 0, stack, <<>>, NoPush)
       ELSE IF ~(Len(top(stack).schema.inners) = top(stack).next)
            THEN Return(o, "SchemaNonConformance", 0, stack, <<>>, NoPush)
            ELSE Return(o, "Ok", 0, pop(stack), <<>>, NoPush)

Decoder_begin_enum ==
    /\ api = "decoder" /\ Alive
    /\ IF validate_need_matches(stack, "Enum")
       THEN Return(Op("begin_enum", "", "", 0, 0), "Ok", 0,
                   SetTop(stack, "Enum", 0, 0), <<>>, NoPush)
       ELSE Return(Op("begin_enum", "", "", 0, 0), validate_top(stack), 0,
                   stack, <<>>, NoPush)

\* self.state.begin_enum_variant(variant_ord, variant_name)? with the
\* ordinal the caller gives, then write_ord(.., variant_ord, num_variants)?:
\* the ordinal is written, as in Encoder::begin_enum, and nothing is read
\* from the source.  When the write reports an error the `?` returns the
\* io::Error with the stack already moved on and a proper prefix of the
\* ordinal written.  The method returns the Decoder, no usize.
Decoder_begin_enum_variant(variant_ord, variant_name) ==
    /\ api = "decoder" /\ Alive /\ Len(stack) < MaxDepth
    /\ LET o == Op("begin_enum_variant", "", variant_name, variant_ord, 0) IN
       IF ~validate_top_matches(stack, "Enum")
       THEN Return(o, validate_top(stack), 0, stack, <<>>, NoPush)
       ELSE LET variants == top(stack).schema
                got == get_variant(variants, variant_ord, variant_name)
            IN  IF got # "Ok"
                THEN Return(o, got, 0, stack, <<>>, NoPush)
                ELSE LET st1 == SetTop(stack, "AutoFinish", 0, 0)
                         p == push_need(st1, variants.inners[variant_ord + 1])
                         num_variants == Len(variants.inners)
                         b == write_ord(variant_ord, num_variants)
                         called == PushOf(variants.inners[variant_ord + 1], st1)
                     IN  IF p.res # "Ok"
                         THEN Return(o, p.res, 0, p.stack, <<>>, called)
                         ELSE \/ Return(o, "Ok", 0, p.stack, b, called)
                              \/ /\ sink_faults > 0
                                 /\ b # <<>>
                                 /\ \E k \in 0..(Len(b) - 1) :
                                       Return(o, "Io", 0, p.stack,
                                              SubSeq(b, 1, k), called)

(***************************************************************************)
(* Allocation reuse (encoder_.rs 23-72, 110-142; coder.rs 63-90).  A Vec   *)
(* is its length, the slots of its allocation and their number; the slots  *)
(* from the length on are not frames of the stack.  clear() sets the       *)
(* length to 0 and keeps the allocation.  An alloc is the allocation of a  *)
(* forgotten Vec and its capacity.                                         *)
(***************************************************************************)
Vec(len, buf, cap) == [len |-> len, buf |-> buf, capacity |-> cap]

\* Vec::new(): no allocation
Vec_new == Vec(0, <<>>, 0)

\* a slot of the allocation that holds no frame
Uninit == StackFrame(Unit, "Uninit", 0, 0)

\* Vec::push: the frame goes in the slot after the last, in a larger
\* allocation when there is none
Vec_push(v, x) ==
    LET cap == grow(v.capacity, v.len + 1) IN
    Vec(v.len + 1,
        [i \in 1..cap |-> IF i = v.len + 1 THEN x
                          ELSE IF i <= v.capacity THEN v.buf[i]
                          ELSE Uninit],
        cap)

\* Vec::clear
clear(v) == [v EXCEPT !.len = 0]

\* the frames a Vec holds
frames(v) == SubSeq(v.buf, 1, v.len)

\* self.stack of a session: its frames in an allocation of cap slots (pop
\* moves a frame out of its slot, which then holds no frame)
stack_vec(st, cap) ==
    Vec(Len(st), [i \in 1..cap |-> IF i <= Len(st) THEN st[i] ELSE Uninit], cap)

\* EncoderStateAlloc::from_stack
from_stack(v) ==
    LET c == clear(v) IN [ptr |-> c.buf, capacity |-> c.capacity]

\* EncoderStateAlloc::new
EncoderStateAlloc_new == from_stack(Vec_new)

\* into_stack building the Vec with its capacity as length (mutation)
into_stack_full(alloc) == Vec(alloc.capacity, alloc.ptr, alloc.capacity)

\* EncoderStateAlloc::into_stack: Vec::from_raw_parts(ptr, 0, capacity)
into_stack(alloc) == Vec(0, alloc.ptr, alloc.capacity)

\* CoderStateAlloc (coder::coder_alloc) offers the same functions
CoderStateAlloc_from_stack(v) == from_stack(v)

CoderStateAlloc_into_stack(alloc) == into_stack(alloc)

CoderStateAlloc_new == CoderStateAlloc_from_stack(Vec_new)

\* CoderState::into_alloc / EncoderState::into_alloc of the session whose
\* stack is the Vec v
into_alloc(a, v) ==
    IF a = "encoder"
    THEN from_stack(clear(v))
    ELSE CoderStateAlloc_from_stack(clear(v))

\* the stack of CoderState::new(s, alloc) / EncoderState::new(s, write, alloc)
new_stack(a, s, alloc) ==
    Vec_push(IF a = "encoder"
             THEN into_stack(alloc)
             ELSE CoderStateAlloc_into_stack(alloc),
             Need(s))

\* a session over a new alloc
new_alloc(a) == IF a = "encoder" THEN EncoderStateAlloc_new ELSE CoderStateAlloc_new

(***************************************************************************)
(* Sessions: CoderState::new / EncoderState::new, then any call at all     *)
(***************************************************************************)
new(s, a) ==
    /\ root = s
    /\ api = a
    /\ stack = frames(new_stack(a, s, new_alloc(a)))
    /\ capacity = new_stack(a, s, new_alloc(a)).capacity
    /\ out = <<>>
    /\ res = "Ok"
    /\ ret = 0
    /\ op = NoOp
    /\ prev = <<>>
    /\ ops = <<>>
    /\ pushed = NoPush
    /\ wrote = <<>>
    /\ begun = <<0>>
    /\ begunPrev = <<>>
    /\ seen = {}
    /\ sent = <<>>
    /\ decoded = <<>>

Init ==
    /\ \E s \in Roots, a \in {"coder", "encoder"} : new(s, a)
    /\ plan = <<>>
    /\ sink_faults = MaxIoErrors
    /\ input = <<>>

Next ==
    \/ \E t \in SimpleTypes : code_simple(t) /\ UNCHANGED plan
    \/ begin_tuple /\ UNCHANGED plan
    \/ begin_tuple_elem /\ UNCHANGED plan
    \/ finish_tuple /\ UNCHANGED plan
    \/ begin_struct /\ UNCHANGED plan
    \/ \E name \in Names : begin_struct_field(name) /\ UNCHANGED plan
    \/ finish_struct /\ UNCHANGED plan
    \/ begin_enum /\ UNCHANGED plan
    \/ \E i \in Ords, name \in Names :
          begin_enum_variant(i, name) /\ UNCHANGED plan
    \/ \E t \in SimpleTypes : \E v \in Values(t) :
          encode_simple(t, v) /\ UNCHANGED plan
    \/ encode_none /\ UNCHANGED plan
    \/ begin_some /\ UNCHANGED plan
    \/ \E len \in 0..MaxSeqLen : begin_seq(len) /\ UNCHANGED plan
    \/ begin_seq_elem /\ UNCHANGED plan
    \/ finish_seq /\ UNCHANGED plan
    \/ Encoder_begin_tuple /\ UNCHANGED plan
    \/ Encoder_begin_tuple_elem /\ UNCHANGED plan
    \/ Encoder_finish_tuple /\ UNCHANGED plan
    \/ Encoder_begin_struct /\ UNCHANGED plan
    \/ \E name \in Names : Encoder_begin_struct_field(name) /\ UNCHANGED plan
    \/ Encoder_finish_struct /\ UNCHANGED plan
    \/ \E i \in Ords, name \in Names :
          Encoder_begin_enum(i, name) /\ UNCHANGED plan

Spec == Init /\ [][Next]_vars

\* the session is given up, finished or not, and its alloc starts the next
\* one over the schema s with a new sink: state.into_alloc(), then new
recycle(s) ==
    /\ Alive
    /\ root' = s
    /\ LET v == new_stack(api, s, into_alloc(api, stack_vec(stack, capacity)))
       IN  /\ stack' = frames(v)
           /\ capacity' = v.capacity
    /\ prev' = stack
    /\ op' = NoOp
    /\ res' = "Ok"
    /\ ret' = 0
    /\ out' = <<>>
    /\ ops' = <<>>
    /\ pushed' = NoPush
    /\ wrote' = <<>>
    /\ begun' = <<0>>
    /\ begunPrev' = <<>>
    /\ seen' = {}
    /\ sent' = <<>>
    /\ decoded' = <<>>
    /\ sink_faults' = MaxIoErrors
    /\ UNCHANGED <<api, input, plan>>

\* the schemas of the sessions that share an alloc
ReuseRoots ==
    { Scalar("U8"),
      Tuple(<<Scalar("U16"), Unit>>),
      Option(Option(Str)),
      Option(Recurse(0)),
      Enum(<<"Leaf", "Branch">>, <<Unit, Recurse(1)>>) }

InitReuse ==
    /\ \E s \in ReuseRoots, a \in {"coder", "encoder"} : new(s, a)
    /\ plan = <<>>
    /\ sink_faults = MaxIoErrors
    /\ input = <<>>

NextReuse ==
    \/ Next
    \/ \E s \in ReuseRoots : recycle(s)

SpecReuse == InitReuse /\ [][NextReuse]_vars

(***************************************************************************)
(* Properties                                                              *)
(***************************************************************************)
\* the last call returned an error and did not panic
Failed == res \in Errors

\* every class of io::Error an operation returns: the three of the coder,
\* an error of the sink or source, and malformed data found by the decoder
ReturnedErrors == Errors \cup {"Io", "Malformed"}

\* `st` is `from` with its top frame and m >= 0 further frames removed
PoppedFrom(st, from) ==
    /\ Len(st) < Len(from)
    /\ st = SubSeq(from, 1, Len(st))

\* the schema a frame pushed for `s` on top of `st` stands for: `s` itself,
\* or for Recurse(n) the schema of the frame n positions above the new frame
BoundTo(s, st) ==
    IF s.kind = "Recurse" /\ s.n > 0 /\ s.n <= Len(st)
    THEN st[(Len(st) - s.n) + 1].schema
    ELSE s

(***************************************************************************)
(* What a complete traversal of one conforming value is: a grammar over    *)
(* the operations, by recursion on the schema.  `anc` holds the schemas of *)
(* the enclosing nodes, outermost first; Recurse(n) names the node n       *)
(* layers above.  ParseValue returns the position after the value that     *)
(* starts at w[pos], or 0 when no value of the schema starts there.        *)
(***************************************************************************)
RECURSIVE Deref(_, _, _)
Deref(s, anc, i) ==
    IF s.kind # "Recurse"
    THEN <<s>>
    ELSE IF s.n = 0 \/ s.n > i
         THEN <<>>
         ELSE Deref(anc[(i - s.n) + 1], anc, i - s.n)

ItemOpName(kind) ==
    CASE kind = "Seq" -> "begin_seq_elem"
      [] kind = "Tuple" -> "begin_tuple_elem"
      [] kind = "Struct" -> "begin_struct_field"

FinishOpName(kind) ==
    CASE kind = "Seq" -> "finish_seq"
      [] kind = "Tuple" -> "finish_tuple"
      [] kind = "Struct" -> "finish_struct"

ItemSchema(s, i) == IF s.kind = "Seq" THEN s.inners[1] ELSE s.inners[i]

VariantOk(s, o) ==
    /\ o.ord < Len(s.inners)
    /\ o.fname = s.names[o.ord + 1]

\* the name under which a session records coding a simple value
SimpleOpName(a) ==
    CASE a = "coder" -> "code"
      [] a = "encoder" -> "encode"
      [] a = "decoder" -> "decode"

RECURSIVE ParseValue(_, _, _, _, _)
RECURSIVE ParseItems(_, _, _, _, _, _, _)

ParseValue(a, s0, anc, w, pos) ==
    LET d == Deref(s0, anc, Len(anc)) IN
    IF d = <<>> \/ pos > Len(w)
    THEN 0
    ELSE LET s == d[1]
             here == Append(anc, s)
             o == w[pos]
         IN  CASE s.kind \in {"Scalar", "Str", "Bytes", "Unit"} ->
                    IF /\ o.name = SimpleOpName(a)
                       /\ schema(o.ty) = s
                    THEN pos + 1
                    ELSE 0
               [] s.kind = "Option" ->
                    IF a = "encoder" /\ o.name = "encode_none"
                    THEN pos + 1
                    ELSE IF a = "encoder" /\ o.name = "begin_some"
                         THEN ParseValue(a, s.inners[1], here, w, pos + 1)
                         ELSE 0
               [] s.kind = "Seq" ->
                    IF /\ a = "encoder" /\ o.name = "begin_seq"
                       /\ (s.len = <<>> \/ s.len[1] = o.len)
                    THEN ParseItems(a, s, here, w, pos + 1, 1, o.len)
                    ELSE 0
               [] s.kind = "Tuple" ->
                    IF o.name = "begin_tuple"
                    THEN ParseItems(a, s, here, w, pos + 1, 1, Len(s.inners))
                    ELSE 0
               [] s.kind = "Struct" ->
                    IF o.name = "begin_struct"
                    THEN ParseItems(a, s, here, w, pos + 1, 1, Len(s.inners))
                    ELSE 0
               [] s.kind = "Enum" ->
                    IF a = "encoder"
                    THEN IF o.name = "begin_enum" /\ VariantOk(s, o)
                         THEN ParseValue(a, s.inners[o.ord + 1], here, w,
                                         pos + 1)
                         ELSE 0
                    ELSE IF /\ o.name = "begin_enum"
                            /\ pos + 1 <= Len(w)
                            /\ w[pos + 1].name = "begin_enum_variant"
                            /\ VariantOk(s, w[pos + 1])
                         THEN ParseValue(a, s.inners[w[pos + 1].ord + 1], here,
                                         w, pos + 2)
                         ELSE 0

\* items i..n of the container `s`, then its finish call
ParseItems(a, s, here, w, pos, i, n) ==
    IF pos > Len(w)
    THEN 0
    ELSE IF i > n
         THEN IF w[pos].name = FinishOpName(s.kind) THEN pos + 1 ELSE 0
         ELSE IF /\ w[pos].name = ItemOpName(s.kind)
                 /\ (s.kind = "Struct" => w[pos].fname = s.names[i])
              THEN LET p == ParseValue(a, ItemSchema(s, i), here, w, pos + 1)
                   IN  IF p = 0
                       THEN 0
                       ELSE ParseItems(a, s, here, w, p, i + 1, n)
              ELSE 0

\* w is, from first to last operation, the traversal of one value of s
IsTraversal(a, s, w) == ParseValue(a, s, <<>>, w, 1) = Len(w) + 1

(***************************************************************************)
(* Values and their traversal: what a caller does to code one value, as in *)
(* the test of lib.rs.  A value is a tree: a simple value, none, some(v),  *)
(* a seq, tuple or struct of items, or variant `ord` of an enum.  Simple   *)
(* values carry no payload here: the coder never sees it.  CoderState has  *)
(* no operation for Option and Seq, so under "coder" these have no values. *)
(***************************************************************************)
Value(tag, ord, items) == [tag |-> tag, ord |-> ord, items |-> items]

RECURSIVE SeqProduct(_)
SeqProduct(sets) ==
    IF sets = <<>>
    THEN {<<>>}
    ELSE {<<h>> \o t : h \in Head(sets), t \in SeqProduct(Tail(sets))}

\* the values conforming to s0 that fit in a stack of MaxDepth frames
RECURSIVE Conforming(_, _, _)
Conforming(a, s0, anc) ==
    LET d == Deref(s0, anc, Len(anc)) IN
    IF d = <<>> \/ Len(anc) >= MaxDepth
    THEN {}
    ELSE LET s == d[1]
             here == Append(anc, s)
         IN  CASE s.kind \in {"Scalar", "Str", "Bytes", "Unit"} ->
                    {Value("simple", 0, <<>>)}
               [] s.kind = "Option" ->
                    IF a = "coder"
                    THEN {}
                    ELSE {Value("none", 0, <<>>)} \cup
                         {Value("some", 0, <<v>>) :
                             v \in Conforming(a, s.inners[1], here)}
               [] s.kind = "Seq" ->
                    IF a = "coder"
                    THEN {}
                    ELSE UNION {
                           {Value("seq", 0, items) :
                               items \in SeqProduct(
                                   [i \in 1..L |->
                                       Conforming(a, s.inners[1], here)])} :
                           L \in IF s.len = <<>>
                                 THEN 0..MaxSeqLen
                                 ELSE {s.len[1]}}
               [] s.kind \in {"Tuple", "Struct"} ->
                    {Value("items", 0, items) :
                        items \in SeqProduct(
                            [i \in 1..Len(s.inners) |->
                                Conforming(a, s.inners[i], here)])}
               [] s.kind = "Enum" ->
                    UNION {
                      {Value("enum", i - 1, <<v>>) :
                          v \in Conforming(a, s.inners[i], here)} :
                      i \in 1..Len(s.inners)}

\* the simple type whose schema is s
SimpleName(s) == CHOOSE t \in SimpleTypes : schema(t) = s

RECURSIVE traverse(_, _, _, _)
RECURSIVE traverse_items(_, _, _, _, _)

\* the operations a caller issues to code value v at a position of schema s0
traverse(a, s0, anc, v) ==
    LET s == Deref(s0, anc, Len(anc))[1]
        here == Append(anc, s)
    IN  CASE s.kind \in {"Scalar", "Str", "Bytes", "Unit"} ->
               <<Op(IF a = "coder" THEN "code" ELSE "encode", SimpleName(s),
                    "", 0, 0)>>
          [] s.kind = "Option" ->
               IF v.tag = "none"
               THEN <<Op("encode_none", "", "", 0, 0)>>
               ELSE <<Op("begin_some", "", "", 0, 0)>>
                    \o traverse(a, s.inners[1], here, v.items[1])
          [] s.kind = "Seq" ->
               <<Op("begin_seq", "", "", 0, Len(v.items))>>
               \o traverse_items(a, s, here, v.items, 1)
               \o <<Op("finish_seq", "", "", 0, 0)>>
          [] s.kind = "Tuple" ->
               <<Op("begin_tuple", "", "", 0, 0)>>
               \o traverse_items(a, s, here, v.items, 1)
               \o <<Op("finish_tuple", "", "", 0, 0)>>
          [] s.kind = "Struct" ->
               <<Op("begin_struct", "", "", 0, 0)>>
               \o traverse_items(a, s, here, v.items, 1)
               \o <<Op("finish_struct", "", "", 0, 0)>>
          [] s.kind = "Enum" ->
               (IF a = "coder"
                THEN <<Op("begin_enum", "", "", 0, 0),
                       Op("begin_enum_variant", "", s.names[v.ord + 1],
                          v.ord, 0)>>
                ELSE <<Op("begin_enum", "", s.names[v.ord + 1], v.ord, 0)>>)
               \o traverse(a, s.inners[v.ord + 1], here, v.items[1])

\* items i.. of a container, each after its begin call
traverse_items(a, s, here, items, i) ==
    IF i > Len(items)
    THEN <<>>
    ELSE <<Op(ItemOpName(s.kind), "",
              IF s.kind = "Struct" THEN s.names[i] ELSE "", 0, 0)>>
         \o traverse(a, ItemSchema(s, i), here, items[i])
         \o traverse_items(a, s, here, items, i + 1)

(***************************************************************************)
(* A session that codes one conforming value: the caller issues the        *)
(* operations of the value's traversal, one after the other.               *)
(***************************************************************************)
Planned(o) ==
    /\ plan # <<>>
    /\ Head(plan) = o
    /\ plan' = Tail(plan)

InitTraverse ==
    \E s \in Roots, a \in {"coder", "encoder"} :
        \E v \in Conforming(a, s, <<>>) :
            /\ new(s, a)
            /\ plan = traverse(a, s, <<>>, v)
            /\ sink_faults = 0
            /\ input = <<>>

NextTraverse ==
    \/ \E t \in SimpleTypes :
          Planned(Op("code", t, "", 0, 0)) /\ code_simple(t)
    \/ Planned(Op("begin_tuple", "", "", 0, 0)) /\ begin_tuple
    \/ Planned(Op("begin_tuple_elem", "", "", 0, 0)) /\ begin_tuple_elem
    \/ Planned(Op("finish_tuple", "", "", 0, 0)) /\ finish_tuple
    \/ Planned(Op("begin_struct", "", "", 0, 0)) /\ begin_struct
    \/ \E name \in Names :
          Planned(Op("begin_struct_field", "", name, 0, 0))
          /\ begin_struct_field(name)
    \/ Planned(Op("finish_struct", "", "", 0, 0)) /\ finish_struct
    \/ Planned(Op("begin_enum", "", "", 0, 0)) /\ begin_enum
    \/ \E i \in Ords, name \in Names :
          Planned(Op("begin_enum_variant", "", name, i, 0))
          /\ begin_enum_variant(i, name)
    \/ \E t \in SimpleTypes : \E v \in Values(t) :
          Planned(Op("encode", t, "", 0, 0)) /\ encode_simple(t, v)
    \/ Planned(Op("encode_none", "", "", 0, 0)) /\ encode_none
    \/ Planned(Op("begin_some", "", "", 0, 0)) /\ begin_some
    \/ \E len \in 0..MaxSeqLen :
          Planned(Op("begin_seq", "", "", 0, len)) /\ begin_seq(len)
    \/ Planned(Op("begin_seq_elem", "", "", 0, 0)) /\ begin_seq_elem
    \/ Planned(Op("finish_seq", "", "", 0, 0)) /\ finish_seq
    \/ Planned(Op("begin_tuple", "", "", 0, 0)) /\ Encoder_begin_tuple
    \/ Planned(Op("begin_tuple_elem", "", "", 0, 0))
          /\ Encoder_begin_tuple_elem
    \/ Planned(Op("finish_tuple", "", "", 0, 0)) /\ Encoder_finish_tuple
    \/ Planned(Op("begin_struct", "", "", 0, 0)) /\ Encoder_begin_struct
    \/ \E name \in Names :
          Planned(Op("begin_struct_field", "", name, 0, 0))
          /\ Encoder_begin_struct_field(name)
    \/ Planned(Op("finish_struct", "", "", 0, 0)) /\ Encoder_finish_struct
    \/ \E i \in Ords, name \in Names :
          Planned(Op("begin_enum", "", name, i, 0))
          /\ Encoder_begin_enum(i, name)

SpecTraverse == InitTraverse /\ [][NextTraverse]_vars

(***************************************************************************)
(* Round trip, as round_trip_test does it: a value is encoded into a       *)
(* buffer, then a second session decodes the buffer under the same schema. *)
(* The values are those both sides have operations for: the Decoder and    *)
(* its CoderState have none for Option and Seq.                            *)
(***************************************************************************)
\* bytes that follow the encoding in the source
Trailer == <<255, 255>>

\* the decoder calls that mirror the encoder calls w
RECURSIVE decode_plan(_)
decode_plan(w) ==
    IF w = <<>>
    THEN <<>>
    ELSE LET o == Head(w)
         IN  (CASE o.name = "encode" -> <<Op("decode", o.ty, "", 0, 0)>>
                [] o.name = "begin_enum" ->
                     <<Op("begin_enum", "", "", 0, 0),
                       Op("begin_enum_variant", "", o.fname, o.ord, 0)>>
                [] OTHER -> <<o>>)
             \o decode_plan(Tail(w))

\* the roots of the sessions, and two more that hold the remaining encodings
RoundTripRoots ==
    Roots \cup
    { Struct(<<"n", "a", "b">>, <<Scalar("I32"), Str, Scalar("U32")>>),
      Tuple(<<Scalar("Char"), Scalar("F64"), Scalar("I16")>>) }

InitRoundTrip ==
    \E s \in RoundTripRoots :
        \E v \in Conforming("coder", s, <<>>) :
            /\ new(s, "encoder")
            /\ plan = traverse("encoder", s, <<>>, v)
            /\ sink_faults = 0
            /\ input = <<>>

\* the encoder is finished: CoderState::new(&schema, ..) and
\* Decoder::new(&mut coder, &mut read) over the buffer; the sink that
\* begin_enum_variant writes the ordinal to may report errors or not
begin_decode ==
    /\ api = "encoder" /\ plan = <<>> /\ is_finished
    /\ api' = "decoder"
    /\ stack' = frames(new_stack("coder", root, CoderStateAlloc_new))
    /\ capacity' = new_stack("coder", root, CoderStateAlloc_new).capacity
    /\ input' = out \o Trailer
    /\ plan' = decode_plan(ops)
    /\ op' = NoOp
    /\ res' = "Ok"
    /\ ret' = 0
    /\ prev' = <<>>
    /\ ops' = <<>>
    /\ pushed' = NoPush
    /\ wrote' = <<>>
    /\ begun' = <<0>>
    /\ begunPrev' = <<>>
    /\ seen' = {}
    /\ decoded' = <<>>
    /\ sink_faults' \in {0, MaxIoErrors}
    /\ UNCHANGED <<root, out, sent>>

NextRoundTrip ==
    \/ \E t \in SimpleTypes : \E v \in Values(t) :
          Planned(Op("encode", t, "", 0, 0)) /\ encode_simple(t, v)
    \/ Planned(Op("begin_tuple", "", "", 0, 0)) /\ Encoder_begin_tuple
    \/ Planned(Op("begin_tuple_elem", "", "", 0, 0))
          /\ Encoder_begin_tuple_elem
    \/ Planned(Op("finish_tuple", "", "", 0, 0)) /\ Encoder_finish_tuple
    \/ Planned(Op("begin_struct", "", "", 0, 0)) /\ Encoder_begin_struct
    \/ \E name \in Names :
          Planned(Op("begin_struct_field", "", name, 0, 0))
          /\ Encoder_begin_struct_field(name)
    \/ Planned(Op("finish_struct", "", "", 0, 0)) /\ Encoder_finish_struct
    \/ \E i \in Ords, name \in Names :
          Planned(Op("begin_enum", "", name, i, 0))
          /\ Encoder_begin_enum(i, name)
    \/ begin_decode
    \/ \E t \in SimpleTypes :
          Planned(Op("decode", t, "", 0, 0)) /\ decode_simple(t)
    \/ Planned(Op("begin_tuple", "", "", 0, 0)) /\ Decoder_begin_tuple
    \/ Planned(Op("begin_tuple_elem", "", "", 0, 0))
          /\ Decoder_begin_tuple_elem
    \/ Planned(Op("finish_tuple", "", "", 0, 0)) /\ Decoder_finish_tuple
    \/ Planned(Op("begin_struct", "", "", 0, 0)) /\ Decoder_begin_struct
    \/ \E name \in Names :
          Planned(Op("begin_struct_field", "", name, 0, 0))
          /\ Decoder_begin_struct_field(name)
    \/ Planned(Op("finish_struct", "", "", 0, 0)) /\ Decoder_finish_struct
    \/ Planned(Op("begin_enum", "", "", 0, 0)) /\ Decoder_begin_enum
    \/ \E i \in Ords, name \in Names :
          Planned(Op("begin_enum_variant", "", name, i, 0))
          /\ Decoder_begin_enum_variant(i, name)

SpecRoundTrip == InitRoundTrip /\ [][NextRoundTrip]_vars

(***************************************************************************)
(* Decoding other sources than the encoder's own output: a truncated       *)
(* encoding, and an encoding read under another schema.                    *)
(***************************************************************************)
\* the calls of a serializing caller, in the order of the plan
EncodePlanned ==
    \/ \E t \in SimpleTypes : \E v \in Values(t) :
          Planned(Op("encode", t, "", 0, 0)) /\ encode_simple(t, v)
    \/ Planned(Op("begin_tuple", "", "", 0, 0)) /\ Encoder_begin_tuple
    \/ Planned(Op("begin_tuple_elem", "", "", 0, 0))
          /\ Encoder_begin_tuple_elem
    \/ Planned(Op("finish_tuple", "", "", 0, 0)) /\ Encoder_finish_tuple
    \/ Planned(Op("begin_struct", "", "", 0, 0)) /\ Encoder_begin_struct
    \/ \E name \in Names :
          Planned(Op("begin_struct_field", "", name, 0, 0))
          /\ Encoder_begin_struct_field(name)
    \/ Planned(Op("finish_struct", "", "", 0, 0)) /\ Encoder_finish_struct
    \/ \E i \in Ords, name \in Names :
          Planned(Op("begin_enum", "", name, i, 0))
          /\ Encoder_begin_enum(i, name)

\* the calls of a deserializing caller, in the order of the plan
DecodePlanned ==
    \/ \E t \in SimpleTypes :
          Planned(Op("decode", t, "", 0, 0)) /\ decode_simple(t)
    \/ Planned(Op("begin_tuple", "", "", 0, 0)) /\ Decoder_begin_tuple
    \/ Planned(Op("begin_tuple_elem", "", "", 0, 0))
          /\ Decoder_begin_tuple_elem
    \/ Planned(Op("finish_tuple", "", "", 0, 0)) /\ Decoder_finish_tuple
    \/ Planned(Op("begin_struct", "", "", 0, 0)) /\ Decoder_begin_struct
    \/ \E name \in Names :
          Planned(Op("begin_struct_field", "", name, 0, 0))
          /\ Decoder_begin_struct_field(name)
    \/ Planned(Op("finish_struct", "", "", 0, 0)) /\ Decoder_finish_struct
    \/ Planned(Op("begin_enum", "", "", 0, 0)) /\ Decoder_begin_enum
    \/ \E i \in Ords, name \in Names :
          Planned(Op("begin_enum_variant", "", name, i, 0))
          /\ Decoder_begin_enum_variant(i, name)

\* CoderState::new(&s, ..) and Decoder::new(&mut coder, &mut read) over the
\* source inp, once the encoder is finished; p is what the caller will call
open_decoder(s, inp, p) ==
    /\ api = "encoder" /\ plan = <<>> /\ is_finished
    /\ api' = "decoder"
    /\ root' = s
    /\ stack' = frames(new_stack("coder", s, CoderStateAlloc_new))
    /\ capacity' = new_stack("coder", s, CoderStateAlloc_new).capacity
    /\ input' = inp
    /\ plan' = p
    /\ op' = NoOp
    /\ res' = "Ok"
    /\ ret' = 0
    /\ prev' = <<>>
    /\ ops' = <<>>
    /\ pushed' = NoPush
    /\ wrote' = <<>>
    /\ begun' = <<0>>
    /\ begunPrev' = <<>>
    /\ seen' = {}
    /\ decoded' = <<>>
    /\ UNCHANGED <<out, sent, sink_faults>>

\* the source holds the encoding less its last byte or more
begin_decode_truncated ==
    \E k \in 0..(Len(out) - 1) :
        open_decoder(root, SubSeq(out, 1, k), decode_plan(ops))

NextPrefix ==
    \/ EncodePlanned
    \/ begin_decode_truncated
    \/ DecodePlanned

SpecPrefix == InitRoundTrip /\ [][NextPrefix]_vars

(***************************************************************************)
(* The schema of schemas (known_schema.rs 207-246) and the coding of        *)
(* Schema values against it, as schema_schema_test does.                   *)
(***************************************************************************)
ScalarTypeSchema ==
    Enum(<<"U8", "U16", "U32", "U64", "U128", "I8", "I16", "I32", "I64",
           "I128", "F32", "F64", "Char", "Bool">>,
         [i \in 1..14 |-> Unit])

SchemaSchema ==
    Enum(<<"Scalar", "Str", "Bytes", "Unit", "Option", "Seq", "Tuple",
           "Struct", "Enum", "Recurse">>,
         <<ScalarTypeSchema,
           Unit,
           Unit,
           Unit,
           Recurse(1),
           Struct(<<"len", "inner">>, <<Option(Scalar("U64")), Recurse(2)>>),
           SeqSchema(<<>>, Recurse(2)),
           SeqSchema(<<>>, Struct(<<"name", "inner">>, <<Str, Recurse(3)>>)),
           SeqSchema(<<>>, Struct(<<"name", "inner">>, <<Str, Recurse(3)>>)),
           Scalar("U64")>>)

\* Schema values as serde serializes them (derive(Serialize) on Schema):
\* a variant of the enum with its payload
V_Simple == Value("simple", 0, <<>>)
V_Scalar(i) == Value("enum", 0, <<Value("enum", i, <<V_Simple>>)>>)
V_Str == Value("enum", 1, <<V_Simple>>)
V_Unit == Value("enum", 3, <<V_Simple>>)
V_Option(inner) == Value("enum", 4, <<inner>>)
V_Seq(len, inner) == Value("enum", 5, <<Value("items", 0, <<len, inner>>)>>)
V_Tuple(inners) == Value("enum", 6, <<Value("seq", 0, inners)>>)
V_Fields(inners) ==
    Value("seq", 0,
          [i \in 1..Len(inners) |-> Value("items", 0, <<V_Simple, inners[i]>>)])
V_Struct(inners) == Value("enum", 7, <<V_Fields(inners)>>)
V_Enum(inners) == Value("enum", 8, <<V_Fields(inners)>>)
V_Recurse == Value("enum", 9, <<V_Simple>>)

\* the Schema values coded: every variant, and the back-edges recurse(1),
\* recurse(2) and recurse(3) taken once and twice in a row
SelfValues ==
    { V_Scalar(0), V_Scalar(13), V_Str, V_Unit, V_Recurse,
      V_Option(V_Unit),
      V_Option(V_Option(V_Recurse)),
      V_Seq(Value("none", 0, <<>>), V_Str),
      V_Seq(Value("some", 0, <<V_Simple>>), V_Option(V_Unit)),
      V_Tuple(<<>>),
      V_Tuple(<<V_Unit, V_Tuple(<<V_Recurse>>)>>),
      V_Struct(<<V_Str>>),
      V_Struct(<<V_Option(V_Unit), V_Unit>>),
      V_Enum(<<V_Unit, V_Recurse>>) }

SelfNames ==
    {SchemaSchema.names[i] : i \in 1..10}
    \cup {ScalarTypeSchema.names[i] : i \in 1..14}
    \cup {"len", "inner", "name"}

InitSelf ==
    \E v \in SelfValues :
        /\ new(SchemaSchema, "encoder")
        /\ plan = traverse("encoder", SchemaSchema, <<>>, v)
        /\ sink_faults = 0
        /\ input = <<>>

NextSelf ==
    \/ \E t \in SimpleTypes : \E v \in Values(t) :
          Planned(Op("encode", t, "", 0, 0)) /\ encode_simple(t, v)
    \/ Planned(Op("encode_none", "", "", 0, 0)) /\ encode_none
    \/ Planned(Op("begin_some", "", "", 0, 0)) /\ begin_some
    \/ \E len \in 0..MaxSeqLen :
          Planned(Op("begin_seq", "", "", 0, len)) /\ begin_seq(len)
    \/ Planned(Op("begin_seq_elem", "", "", 0, 0)) /\ begin_seq_elem
    \/ Planned(Op("finish_seq", "", "", 0, 0)) /\ finish_seq
    \/ Planned(Op("begin_struct", "", "", 0, 0)) /\ Encoder_begin_struct
    \/ \E name \in SelfNames :
          Planned(Op("begin_struct_field", "", name, 0, 0))
          /\ Encoder_begin_struct_field(name)
    \/ Planned(Op("finish_struct", "", "", 0, 0)) /\ Encoder_finish_struct
    \/ \E i \in 0..13, name \in SelfNames :
          Planned(Op("begin_enum", "", name, i, 0))
          /\ Encoder_begin_enum(i, name)
    \/ begin_decode
    \/ \E t \in SimpleTypes :
          Planned(Op("decode", t, "", 0, 0)) /\ decode_simple(t)
    \/ Planned(Op("begin_struct", "", "", 0, 0)) /\ Decoder_begin_struct
    \/ \E name \in SelfNames :
          Planned(Op("begin_struct_field", "", name, 0, 0))
          /\ Decoder_begin_struct_field(name)
    \/ Planned(Op("begin_enum", "", "", 0, 0)) /\ Decoder_begin_enum
    \/ \E i \in 0..13, name \in SelfNames :
          Planned(Op("begin_enum_variant", "", name, i, 0))
          /\ Decoder_begin_enum_variant(i, name)

SpecSelf == InitSelf /\ [][NextSelf]_vars

(***************************************************************************)
(* The serde adapter (serde.rs): impl Serializer, SerializeSeq and         *)
(* SerializeMap for &mut Encoder.  Option<usize> is <<>> for None and      *)
(* <<n>> for Some(n).                                                      *)
(***************************************************************************)
\* Encoder::need: the schema at the current top frame
Encoder_need(st) ==
    [ok |-> st # <<>>,
     schema |-> IF st # <<>> THEN top(st).schema ELSE Unit]

\* Encoder::begin_fixed_len_seq: the schema's length must equal len; the
\* frame becomes Seq and nothing is written
begin_fixed_len_seq(len) ==
    /\ api = "encoder" /\ Alive
    /\ LET o == Op("begin_fixed_len_seq", "", "", 0, len) IN
       IF ~validate_need_matches(stack, "Seq")
       THEN Return(o, validate_top(stack), 0, stack, <<>>, NoPush)
       ELSE IF top(stack).schema.len # <<len>>
            THEN Return(o, "SchemaNonConformance", 0, stack, <<>>, NoPush)
            ELSE Return(o, "Ok", 0, SetTop(stack, "Seq", len, 0), <<>>,
                        NoPush)

\* Encoder::begin_var_len_seq: the schema has no length; the length is
\* written and the frame becomes Seq
begin_var_len_seq(len) ==
    /\ api = "encoder" /\ Alive
    /\ LET o == Op("begin_var_len_seq", "", "", 0, len) IN
       IF ~validate_need_matches(stack, "Seq")
       THEN Return(o, validate_top(stack), 0, stack, <<>>, NoPush)
       ELSE IF top(stack).schema.len # <<>>
            THEN Return(o, "SchemaNonConformance", 0, stack, <<>>, NoPush)
            ELSE \/ Return(o, "Ok", 0, SetTop(stack, "Seq", len, 0),
                           write_var_len_uint(len), NoPush)
                 \/ SinkFault(o, write_var_len_uint(len))

\* the serde call as it stands in a plan of calls
SerdeOp(name, len) ==
    Op(name, IF len = <<>> THEN "None" ELSE "Some", "", 0,
       IF len = <<>> THEN 0 ELSE len[1])

\* serialize_seq that never looks at the schema's length (mutation)
serialize_seq_var_len(len) ==
    /\ api = "encoder" /\ Alive
    /\ LET o == SerdeOp("serialize_seq", len) IN
       IF len = <<>>
       THEN Return(o, "Other", 0, stack, <<>>, NoPush)
       ELSE IF ~Encoder_need(stack).ok
            THEN Return(o, validate_top(stack), 0, stack, <<>>, NoPush)
            ELSE IF Encoder_need(stack).schema.kind # "Seq"
                 THEN Return(o, "SchemaNonConformance", 0, stack, <<>>,
                             NoPush)
                 ELSE begin_var_len_seq(len[1])

\* Serializer::serialize_seq
serialize_seq(len) ==
    /\ api = "encoder" /\ Alive
    /\ LET o == SerdeOp("serialize_seq", len) IN
       IF len = <<>>
       THEN Return(o, "Other", 0, stack, <<>>, NoPush)
       ELSE IF ~Encoder_need(stack).ok
            THEN Return(o, validate_top(stack), 0, stack, <<>>, NoPush)
            ELSE IF Encoder_need(stack).schema.kind # "Seq"
                 THEN Return(o, "SchemaNonConformance", 0, stack, <<>>,
                             NoPush)
                 ELSE IF Encoder_need(stack).schema.len # <<>>
                      THEN begin_fixed_len_seq(len[1])
                      ELSE begin_var_len_seq(len[1])

\* Serializer::serialize_map
serialize_map(len) ==
    /\ api = "encoder" /\ Alive
    /\ IF len = <<>>
       THEN Return(SerdeOp("serialize_map", len), "Other", 0, stack, <<>>,
                   NoPush)
       ELSE begin_var_len_seq(len[1])

\* SerializeSeq::serialize_element, of a value of simple type t
serialize_element(t) ==
    <<Op("begin_seq_elem", "", "", 0, 0), Op("encode", t, "", 0, 0)>>

\* SerializeSeq::end and SerializeMap::end
end == <<Op("finish_seq", "", "", 0, 0)>>

\* SerializeMap::serialize_key, of a key of simple type t
serialize_key(t) ==
    <<Op("begin_seq_elem", "", "", 0, 0), Op("begin_tuple", "", "", 0, 0),
      Op("begin_tuple_elem", "", "", 0, 0), Op("encode", t, "", 0, 0)>>

\* serialize_value that leaves the tuple open (mutation)
serialize_value_open(t) ==
    <<Op("begin_tuple_elem", "", "", 0, 0), Op("encode", t, "", 0, 0)>>

\* SerializeMap::serialize_value, of a value of simple type t
serialize_value(t) ==
    <<Op("begin_tuple_elem", "", "", 0, 0), Op("encode", t, "", 0, 0),
      Op("finish_tuple", "", "", 0, 0)>>

RECURSIVE Repeat(_, _)
Repeat(w, n) == IF n = 0 THEN <<>> ELSE w \o Repeat(w, n - 1)

\* the values serialized: a sequence of n values of type val, a map of n
\* entries of types key and val, or a sequence holding one sequence of n
\* values; len is the length serde announces
Serialized(kind, len, n, key, val) ==
    [kind |-> kind, len |-> len, n |-> n, key |-> key, val |-> val]

SerdeValues ==
    {Serialized("seq", <<>>, 1, "unit", t) : t \in {"str", "u32"}}
    \cup {Serialized("map", <<>>, 1, "str", "str")}
    \cup {Serialized(kind, <<n>>, n, k, t) :
            kind \in {"seq", "map", "nested"},
            n \in 0..MaxSeqLen, k \in {"str"}, t \in {"str", "u32"}}

\* Serialize for Vec<T> and for a map: the calls the value makes, in order
serialize(v) ==
    CASE v.kind = "seq" ->
           <<SerdeOp("serialize_seq", v.len)>>
           \o Repeat(serialize_element(v.val), v.n) \o end
      [] v.kind = "map" ->
           <<SerdeOp("serialize_map", v.len)>>
           \o Repeat(serialize_key(v.key) \o serialize_value(v.val), v.n)
           \o end
      [] v.kind = "nested" ->
           <<SerdeOp("serialize_seq", <<1>>),
             Op("begin_seq_elem", "", "", 0, 0),
             SerdeOp("serialize_seq", v.len)>>
           \o Repeat(serialize_element(v.val), v.n) \o end \o end

SerdeRoots ==
    { SeqSchema(<<>>, Str),
      SeqSchema(<<>>, Scalar("U32")),
      SeqSchema(<<2>>, Scalar("U32")),
      SeqSchema(<<>>, Tuple(<<Str, Str>>)),
      SeqSchema(<<>>, Tuple(<<Str, Scalar("U32")>>)),
      SeqSchema(<<>>, Tuple(<<Str, Str, Str>>)),
      SeqSchema(<<2>>, Tuple(<<Str, Str>>)),
      SeqSchema(<<1>>, SeqSchema(<<>>, Scalar("U32"))),
      SeqSchema(<<>>, SeqSchema(<<2>>, Str)),
      Str,
      Tuple(<<Str, Str>>),
      Option(SeqSchema(<<>>, Str)) }

InitSerde ==
    \E s \in SerdeRoots, v \in SerdeValues :
        /\ new(s, "encoder")
        /\ plan = serialize(v)
        /\ sink_faults = 0
        /\ input = <<>>

\* the `?` of the adapter: the value makes its next call only after an Ok
SerdeCall(o) == res = "Ok" /\ Planned(o)

OptLens == {<<>>} \cup {<<n>> : n \in 0..MaxSeqLen}

NextSerde ==
    \/ \E len \in OptLens :
          SerdeCall(SerdeOp("serialize_seq", len)) /\ serialize_seq(len)
    \/ \E len \in OptLens :
          SerdeCall(SerdeOp("serialize_map", len)) /\ serialize_map(len)
    \/ SerdeCall(Op("begin_seq_elem", "", "", 0, 0)) /\ begin_seq_elem
    \/ SerdeCall(Op("finish_seq", "", "", 0, 0)) /\ finish_seq
    \/ SerdeCall(Op("begin_tuple", "", "", 0, 0)) /\ Encoder_begin_tuple
    \/ SerdeCall(Op("begin_tuple_elem", "", "", 0, 0))
          /\ Encoder_begin_tuple_elem
    \/ SerdeCall(Op("finish_tuple", "", "", 0, 0)) /\ Encoder_finish_tuple
    \/ \E t \in {"str", "u32"} : \E v \in Values(t) :
          SerdeCall(Op("encode", t, "", 0, 0)) /\ encode_simple(t, v)

SpecSerde == InitSerde /\ [][NextSerde]_vars

(***************************************************************************)
(* The serde adapter on structs (serde.rs): SerializeStruct for             *)
(* &mut Encoder.  A struct value is its fields in order, each serialized   *)
(* (serialize_field) or skipped (skip_field).                              *)
(***************************************************************************)
\* SerializeStruct::serialize_field, of a value of simple type t
serialize_field(key, t) ==
    <<Op("begin_struct_field", "", key, 0, 0), Op("encode", t, "", 0, 0)>>

\* SerializeStruct::skip_field and SerializeStructVariant::skip_field
skip_field(key) ==
    <<Op("begin_struct_field", "", key, 0, 0),
      Op("encode_none", "", "", 0, 0)>>

FieldKeys == {"a", "b", "n"}

\* what a struct value does with one of its fields
FieldCalls ==
    {skip_field(key) : key \in FieldKeys}
    \cup {serialize_field(key, t) : key \in FieldKeys, t \in {"str", "u32"}}

\* most fields a serialized struct value has
MaxFields == 2

RECURSIVE FieldSeqs(_)
FieldSeqs(n) ==
    IF n = 0
    THEN {<<>>}
    ELSE FieldSeqs(n - 1)
         \cup {w \o f : w \in FieldSeqs(n - 1), f \in FieldCalls}

StructRoots ==
    { Struct(<<"a", "b">>, <<Option(Str), Scalar("U32")>>),
      Struct(<<"a", "b">>, <<Str, Option(Scalar("U32"))>>),
      Struct(<<"a", "b">>, <<Option(Str), Option(Option(Str))>>),
      Option(Struct(<<"a", "b">>, <<Recurse(2), Scalar("U32")>>)) }

\* Serializer::serialize_some (for a root Option), serialize_struct, the
\* fields, SerializeStruct::end
serialize_struct(s, fields) ==
    (IF s.kind = "Option" THEN <<Op("begin_some", "", "", 0, 0)>> ELSE <<>>)
    \o <<Op("begin_struct", "", "", 0, 0)>>
    \o fields
    \o <<Op("finish_struct", "", "", 0, 0)>>

InitStruct ==
    \E s \in StructRoots, fields \in FieldSeqs(MaxFields) :
        /\ new(s, "encoder")
        /\ plan = serialize_struct(s, fields)
        /\ sink_faults = 0
        /\ input = <<>>

NextStruct ==
    \/ SerdeCall(Op("begin_some", "", "", 0, 0)) /\ begin_some
    \/ SerdeCall(Op("begin_struct", "", "", 0, 0)) /\ Encoder_begin_struct
    \/ \E key \in FieldKeys :
          SerdeCall(Op("begin_struct_field", "", key, 0, 0))
          /\ Encoder_begin_struct_field(key)
    \/ SerdeCall(Op("encode_none", "", "", 0, 0)) /\ encode_none
    \/ \E t \in {"str", "u32"} : \E v \in Values(t) :
          SerdeCall(Op("encode", t, "", 0, 0)) /\ encode_simple(t, v)
    \/ SerdeCall(Op("finish_struct", "", "", 0, 0)) /\ Encoder_finish_struct

SpecStruct == InitStruct /\ [][NextStruct]_vars

(***************************************************************************)
(* push_need on its own (coder.rs 196-213): the resolution loop, with the  *)
(* stack indices it reads.  The stacks are those CoderState::new and       *)
(* push_need build: a root frame over any schema, a Recurse included, and  *)
(* frames over resolved schemas above it.                                  *)
(***************************************************************************)
\* the loop of push_need without ensure!(n > 0) (mutation)
RECURSIVE resolve_loop_level_unchecked(_, _, _, _)
resolve_loop_level_unchecked(st, s, i, fuel) ==
    IF s.kind # "Recurse"
    THEN [idx |-> <<>>, ended |-> TRUE, ok |-> TRUE, schema |-> s]
    ELSE IF i - s.n < 0
         THEN [idx |-> <<>>, ended |-> TRUE, ok |-> FALSE, schema |-> s]
         ELSE IF i - s.n >= Len(st)
              THEN [idx |-> <<i - s.n>>, ended |-> TRUE, ok |-> FALSE,
                    schema |-> s]
              ELSE IF fuel = 0
                   THEN [idx |-> <<>>, ended |-> FALSE, ok |-> FALSE,
                         schema |-> s]
                   ELSE LET r == resolve_loop_level_unchecked(
                                    st, st[(i - s.n) + 1].schema, i - s.n,
                                    fuel - 1)
                        IN  [r EXCEPT !.idx = <<i - s.n>> \o @]

\* `while let &Schema::Recurse(n) = schema { .. }`: idx is the values `i`
\* takes, each the index of a read self.stack[i] (a read at or past the
\* length panics and ends the loop); the loop is followed for `fuel`
\* iterations, and `ended` tells whether it came to an end within them
RECURSIVE resolve_loop(_, _, _, _)
resolve_loop(st, s, i, fuel) ==
    IF s.kind # "Recurse"
    THEN [idx |-> <<>>, ended |-> TRUE, ok |-> TRUE, schema |-> s]
    ELSE IF ~(s.n > 0)
         THEN [idx |-> <<>>, ended |-> TRUE, ok |-> FALSE, schema |-> s]
         ELSE IF i - s.n < 0
              THEN [idx |-> <<>>, ended |-> TRUE, ok |-> FALSE, schema |-> s]
              ELSE IF i - s.n >= Len(st)
                   THEN [idx |-> <<i - s.n>>, ended |-> TRUE, ok |-> FALSE,
                         schema |-> s]
                   ELSE IF fuel = 0
                        THEN [idx |-> <<>>, ended |-> FALSE, ok |-> FALSE,
                              schema |-> s]
                        ELSE LET r == resolve_loop(
                                         st, st[(i - s.n) + 1].schema,
                                         i - s.n, fuel - 1)
                             IN  [r EXCEPT !.idx = <<i - s.n>> \o @]

\* largest level of a Recurse node
MaxLevel == 3

RecurseNodes == {Recurse(n) : n \in 0..MaxLevel}

\* schemas of the root frame: CoderState::new pushes the root as it is
PushRootSchemas == RecurseNodes \cup {Unit, Option(Recurse(1))}

\* schemas of the frames above the root
PushFrameSchemas == {Option(Unit), Tuple(<<Unit, Unit>>)}

\* schemas handed to push_need
PushRequests == RecurseNodes \cup {Unit}

InitPush ==
    \E s \in PushRootSchemas, k \in 0..(MaxDepth - 2) :
        \E above \in [1..k -> PushFrameSchemas] :
            /\ root = s
            /\ api = "coder"
            /\ stack = <<StackFrame(s, "AutoFinish", 0, 0)>>
                        \o [i \in 1..k |->
                               StackFrame(above[i], "AutoFinish", 0, 0)]
            /\ capacity = pushed_capacity(k + 1)
            /\ out = <<>>
            /\ res = "Ok"
            /\ ret = 0
            /\ op = NoOp
            /\ prev = <<>>
            /\ ops = <<>>
            /\ pushed = NoPush
            /\ wrote = <<>>
            /\ begun = [i \in 1..(k + 1) |-> 0]
            /\ begunPrev = <<>>
            /\ seen = {}
            /\ sent = <<>>
            /\ decoded = <<>>
            /\ plan = <<>>
            /\ sink_faults = 0
            /\ input = <<>>

\* one call of push_need
call_push_need(s) ==
    /\ op = NoOp
    /\ Len(stack) < MaxDepth
    /\ LET p == push_need(stack, s)
       IN  Return(Op("push_need", "", "", 0, 0), p.res, 0, p.stack, <<>>,
                  PushOf(s, stack))
    /\ UNCHANGED plan

NextPush == \E s \in PushRequests : call_push_need(s)

SpecPush == InitPush /\ [][NextPush]_vars

\* schemas with encodings in common; none has an enum of two variants or more
MismatchRoots ==
    { Scalar("U8"),
      Scalar("Bool"),
      Str,
      Tuple(<<Scalar("U8"), Scalar("U8")>>),
      Tuple(<<Scalar("U16"), Unit>>),
      Struct(<<"a", "b">>, <<Bytes, Tuple(<<Scalar("Bool")>>)>>),
      Enum(<<"Leaf">>, <<Scalar("Bool")>>) }

InitMismatch ==
    \E s \in MismatchRoots :
        \E v \in Conforming("coder", s, <<>>) :
            /\ new(s, "encoder")
            /\ plan = traverse("encoder", s, <<>>, v)
            /\ sink_faults = 0
            /\ input = <<>>

\* the bytes encoded under the schema root are given to a decoder
\* constructed with another schema
begin_decode_other ==
    \E s \in MismatchRoots :
        /\ s # root
        /\ open_decoder(s, out, <<>>)

\* the calls a caller of the Decoder can make
DecodeAny ==
    /\ UNCHANGED plan
    /\ \/ \E t \in SimpleTypes : decode_simple(t)
       \/ Decoder_begin_tuple
       \/ Decoder_begin_tuple_elem
       \/ Decoder_finish_tuple
       \/ Decoder_begin_struct
       \/ \E name \in Names : Decoder_begin_struct_field(name)
       \/ Decoder_finish_struct
       \/ Decoder_begin_enum
       \/ \E i \in Ords, name \in Names : Decoder_begin_enum_variant(i, name)

NextMismatch ==
    \/ EncodePlanned
    \/ begin_decode_other
    \/ DecodeAny

SpecMismatch == InitMismatch /\ [][NextMismatch]_vars

\* the bytes an encoder writes for the simple values vals, coded by the
\* encode or decode calls of w one after the other (an enum of one variant has no
\* ordinal bytes)
RECURSIVE reencode(_, _)
reencode(w, vals) ==
    IF w = <<>>
    THEN <<>>
    ELSE IF Head(w).name \in {"encode", "decode"}
         THEN encoding(Head(w).ty, Head(vals)) \o reencode(Tail(w), Tail(vals))
         ELSE reencode(Tail(w), vals)

\* the simple values of w are values of their types
RECURSIVE well_typed(_, _)
well_typed(w, vals) ==
    IF w = <<>>
    THEN vals = <<>>
    ELSE IF Head(w).name = "decode"
         THEN /\ vals # <<>>
              /\ Head(w).ty = "bool" => Head(vals) \in {0, 1}
              /\ Head(w).ty = "char" => is_char(Head(vals))
              /\ well_typed(Tail(w), Tail(vals))
         ELSE well_typed(Tail(w), vals)

\* C1: if is_finished_or_err returns Ok, the operations that succeeded form,
\* in order, a complete traversal of exactly one value conforming to the
\* root schema (every element, field and declared sequence element coded,
\* one variant per enum).
C1_FinishedMeansTraversed ==
    (is_finished_or_err = "Ok") => IsTraversal(api, root, ops)

\* the same for the root schemas whose Recurse edges all resolve
C1_ValidRoots ==
    (root \in ValidRoots /\ is_finished_or_err = "Ok") =>
        IsTraversal(api, root, ops)

\* C2: for every schema and every value conforming to it, the operations
\* that traverse the value in schema order are all accepted: each returns
\* Ok, is_finished is false after every proper prefix (operations remain)
\* and true after the last one; no operation of the traversal is held back.
C2_TraversalAccepted ==
    /\ res = "Ok"
    /\ plan # <<>> => (~is_finished /\ ENABLED NextTraverse)
    /\ plan = <<>> => is_finished

\* a tree with a branch was traversed to the end through recurse(2)
C2_Witness ==
    /\ plan = <<>>
    /\ is_finished
    /\ root = TreeSchema
    /\ \E i \in 1..Len(ops) : ops[i].name = "begin_struct_field"

\* C3: code_<T> succeeds if and only if the stack is non-empty and its top
\* frame is Need over exactly schema T; on success that frame is popped; on
\* a Need frame over any other schema the result is a schema non-conformance
\* error (and the stack is left alone).
C3_CodeSimple ==
    (api = "coder" /\ op.name = "code") =>
        LET need == prev # <<>> /\ top(prev).api_state = "Need" IN
        /\ (res = "Ok") <=> (need /\ top(prev).schema = schema(op.ty))
        /\ (res = "Ok") => PoppedFrom(stack, prev)
        /\ (need /\ top(prev).schema # schema(op.ty)) =>
               (res = "SchemaNonConformance" /\ stack = prev)

\* code_u8 was called on a Need frame over U16 and refused
C3_Witness ==
    /\ api = "coder" /\ op.name = "code" /\ op.ty = "u8"
    /\ prev # <<>> /\ top(prev) = Need(Scalar("U16"))
    /\ res = "SchemaNonConformance"
    /\ Len(ops) > 0

\* the last call was `name`, made on a top frame in api_state `state`
CalledOn(name, state) ==
    /\ op.name = name
    /\ prev # <<>>
    /\ top(prev).api_state = state

\* the last call succeeded, leaving the container frame with next + 1 and a
\* Need frame for the item schema `s` on top of it
BeganItem(state, s) ==
    /\ Len(stack) = Len(prev) + 1
    /\ Front(stack) =
          SetTop(prev, state, top(prev).len, top(prev).next + 1)
    /\ top(stack) = Need(BoundTo(s, prev))

\* C4: begin_struct_field(name) succeeds only on the Struct frame with
\* next < k and name the name of field `next`; it then increments next and
\* pushes Need for that field's schema.  So the fields begun with success
\* are the declared fields in order, none skipped or repeated, and
\* finish_struct succeeds only when next = k, all k fields begun.
C4_StructOrder ==
    /\ (op.name = "begin_struct_field" /\ res = "Ok") =>
          /\ CalledOn("begin_struct_field", "Struct")
          /\ top(prev).next < Len(top(prev).schema.inners)
          /\ op.fname = top(prev).schema.names[top(prev).next + 1]
          /\ BeganItem("Struct", top(prev).schema.inners[top(prev).next + 1])
          /\ op.fname = top(prev).schema.names[begun[Len(prev)]]
    /\ (op.name = "finish_struct" /\ res = "Ok") =>
          /\ CalledOn("finish_struct", "Struct")
          /\ top(prev).next = Len(top(prev).schema.inners)
          /\ begunPrev[Len(prev)] = Len(top(prev).schema.inners)

\* C5: the i-th successful begin_tuple_elem after begin_tuple pushes a Need
\* frame bound to e(i); begin_tuple_elem at next = k returns an error and
\* pushes nothing; finish_tuple succeeds only when next = k.
C5_TupleElems ==
    api = "coder" =>
    /\ (op.name = "begin_tuple_elem" /\ res = "Ok") =>
          /\ CalledOn("begin_tuple_elem", "Tuple")
          /\ BeganItem("Tuple", top(prev).schema.inners[begun[Len(prev)]])
    /\ (/\ CalledOn("begin_tuple_elem", "Tuple")
        /\ top(prev).next = Len(top(prev).schema.inners)) =>
          (Failed /\ stack = prev)
    /\ (op.name = "finish_tuple" /\ res = "Ok") =>
          /\ CalledOn("finish_tuple", "Tuple")
          /\ top(prev).next = Len(top(prev).schema.inners)

\* C6: between a successful begin_seq(L) and its successful finish_seq
\* exactly L elements are begun: begin_seq_elem succeeds only while
\* next < L, incrementing next and pushing the inner schema as Need, and
\* finish_seq succeeds only when next = L.  For L = 0 finish_seq succeeds
\* at once and begin_seq_elem fails.
C6_SeqElems ==
    /\ (op.name = "begin_seq_elem" /\ res = "Ok") =>
          /\ CalledOn("begin_seq_elem", "Seq")
          /\ top(prev).next < top(prev).len
          /\ BeganItem("Seq", top(prev).schema.inners[1])
    /\ (op.name = "finish_seq" /\ res = "Ok") =>
          /\ CalledOn("finish_seq", "Seq")
          /\ top(prev).next = top(prev).len
          /\ begunPrev[Len(prev)] = top(prev).len
    /\ (CalledOn("finish_seq", "Seq") /\ top(prev).len = 0) => res = "Ok"
    /\ (CalledOn("begin_seq_elem", "Seq") /\ top(prev).len = 0) =>
          (Failed /\ stack = prev)

\* C7: begin_seq(len) on a Need frame over a Seq of fixed length L # len
\* returns schema non-conformance, writes no byte and leaves the frame Need.
C7_FixedLenMismatch ==
    (/\ op.name = "begin_seq"
     /\ prev # <<>>
     /\ top(prev).api_state = "Need"
     /\ top(prev).schema.kind = "Seq"
     /\ top(prev).schema.len # <<>>
     /\ top(prev).schema.len[1] # op.len) =>
        /\ res = "SchemaNonConformance"
        /\ wrote = <<>>
        /\ stack = prev
        /\ top(stack).api_state = "Need"

\* length 3 was offered to a Seq{len=2} after bytes had been written
C7_Witness ==
    /\ op.name = "begin_seq" /\ op.len = 3
    /\ prev # <<>> /\ top(prev) = Need(SeqSchema(<<2>>, Scalar("F32")))
    /\ res = "SchemaNonConformance"
    /\ out # <<>>

\* C8: begin_enum succeeds only on a Need frame over an Enum and returns the
\* variant count; begin_enum_variant(ord, name) succeeds only if ord is below
\* the variant count and name is the name of variant ord; it then leaves the
\* enum frame AutoFinish with a Need frame for that variant's inner schema on
\* top.  Encoder::begin_enum(ord, name) does both steps at once.
C8_Enum ==
    /\ (api = "coder" /\ op.name = "begin_enum" /\ res = "Ok") =>
          /\ prev # <<>>
          /\ top(prev).api_state = "Need"
          /\ top(prev).schema.kind = "Enum"
          /\ ret = Len(top(prev).schema.inners)
          /\ stack = SetTop(prev, "Enum", 0, 0)
    /\ ((\/ api = "coder" /\ op.name = "begin_enum_variant"
         \/ api = "encoder" /\ op.name = "begin_enum") /\ res = "Ok") =>
          /\ prev # <<>>
          /\ top(prev).api_state = IF api = "coder" THEN "Enum" ELSE "Need"
          /\ top(prev).schema.kind = "Enum"
          /\ op.ord < Len(top(prev).schema.inners)
          /\ op.fname = top(prev).schema.names[op.ord + 1]
          /\ Len(stack) = Len(prev) + 1
          /\ Front(stack) = SetTop(prev, "AutoFinish", 0, 0)
          /\ top(stack) =
                Need(BoundTo(top(prev).schema.inners[op.ord + 1], prev))

\* a second variant was begun by ordinal and name, below another enum
C8_Witness ==
    /\ api = "coder" /\ op.name = "begin_enum_variant" /\ res = "Ok"
    /\ op.ord = 1 /\ ret = 2
    /\ Len(prev) > 1

\* C9: when a value completes (a simple value is coded, or a finish_* call
\* pops its frame) the frames removed below it are exactly the contiguous
\* AutoFinish frames: all removed frames but the top one were AutoFinish, and
\* the frame left on top, if any, is not AutoFinish.
Completes ==
    /\ res = "Ok"
    /\ op.name \in {"code", "encode", "encode_none", "finish_tuple",
                    "finish_struct", "finish_seq"}

C9_AutoFinish ==
    Completes =>
        /\ PoppedFrom(stack, prev)
        /\ \A j \in (Len(stack) + 1)..(Len(prev) - 1) :
              prev[j].api_state = "AutoFinish"
        /\ stack # <<>> => top(stack).api_state # "AutoFinish"

\* two nested wrappers went away with the value inside them, and a frame
\* that is not a wrapper stayed
C9_Witness ==
    /\ Completes
    /\ Len(prev) - Len(stack) = 3
    /\ stack # <<>>

\* C10: push_need for Recurse(n) on a stack of length L binds the new frame
\* to the schema of the frame at index L - n; with n = 0 or n > L the call
\* returns an error and pushes nothing.
C10_Recurse ==
    (pushed.called /\ pushed.req.kind = "Recurse") =>
        LET L == pushed.at
            n == pushed.req.n
        IN  IF n = 0 \/ n > L
            THEN Failed /\ Len(stack) = L
            ELSE /\ res = "Ok"
                 /\ Len(stack) = L + 1
                 /\ top(stack) = Need(stack[(L - n) + 1].schema)

\* a Recurse(1) was resolved where Recurse(2) would have reached another frame
C10_Witness ==
    /\ pushed.called /\ pushed.req = Recurse(1) /\ res = "Ok"
    /\ pushed.at >= 2
    /\ stack[pushed.at].schema # stack[pushed.at - 1].schema

\* C11: every frame pushed by push_need is bound to a schema that is not a
\* Recurse, however the Recurse edges chain: the frame a successful
\* push_need leaves on top, and every frame above the root frame (which
\* CoderState::new pushes unresolved), holds a non-Recurse schema.
C11_NeverBoundToRecurse ==
    /\ (pushed.called /\ res = "Ok") => top(stack).schema.kind # "Recurse"
    /\ \A j \in 2..Len(stack) : stack[j].schema.kind # "Recurse"

\* a Recurse(2) field of the tree was pushed and bound to the Enum
C11_Witness ==
    /\ pushed.called /\ res = "Ok"
    /\ pushed.req = Recurse(2)
    /\ top(stack) = Need(TreeSchema)
    /\ Len(stack) >= 3

\* C12: the first operation that reaches a Recurse(0) returns an error: the
\* push_need asked to push it when it lies under a tuple, struct, option,
\* seq or enum, and any operation at all when it is the root schema.
C12_RecurseZero ==
    /\ (pushed.called /\ pushed.req = Recurse(0)) => Failed
    /\ (root = Recurse(0) /\ op.name # "new") => Failed

\* begin_some reached the Recurse(0) under an Option and was refused
C12_Witness ==
    /\ op.name = "begin_some"
    /\ pushed.called /\ pushed.req = Recurse(0)
    /\ root = Option(Recurse(0))
    /\ res = "InvalidSchema"

\* C13: once the coder is finished (empty stack) every further coding
\* operation returns an API usage error and the stack stays empty.
C13_FinishedThenError ==
    (op.name # "new" /\ prev = <<>>) =>
        (res = "ApiUsage" /\ stack = <<>>)

\* a finish call was made on a coder that had traversed a whole tuple
C13_Witness ==
    /\ op.name = "finish_tuple" /\ prev = <<>>
    /\ res = "ApiUsage"
    /\ Len(ops) >= 4

\* C14: an operation either succeeds, or returns an error after which
\* is_finished_or_err returns an error, in that state and in every later
\* state of the session.
C14_ErrorSticks ==
    (seen \cap ReturnedErrors # {}) => is_finished_or_err # "Ok"

\* C15: after the sink or source has reported an I/O error during an
\* operation, no later encode or decode operation of the session succeeds.
C15_IoErrorTerminal ==
    [][("Io" \in seen /\ op'.name # "new") => res' # "Ok"]_vars

\* C16: the bytes an encoder operation writes are written only once its
\* state transition has succeeded: an operation that returns a schema
\* non-conformance, API usage or schema structural error has written none.
C16_NoBytesOnError ==
    (api = "encoder" /\ res \in Errors) => wrote = <<>>

\* C17: when beginning an enum variant fails the validation of its ordinal
\* or name, the state is the one before the enum began: the top frame is
\* Need over the Enum schema and the frames below are unchanged.
C17_EnumRollback ==
    (/\ \/ api = "coder" /\ CalledOn("begin_enum_variant", "Enum")
        \/ /\ api = "encoder" /\ CalledOn("begin_enum", "Need")
           /\ top(prev).schema.kind = "Enum"
     /\ ~VariantOk(top(prev).schema, op)) =>
        /\ Failed
        /\ stack = SetTop(prev, "Need", 0, 0)

\* C18: a session created from the alloc that into_alloc returned for an
\* earlier session, whatever state that one was in, starts as a session
\* over a fresh alloc does: one frame, Need over the root schema, nothing
\* written, no operation made.  The operations depend only on that state,
\* so it behaves as a fresh session for every operation sequence.
C18_AllocReuse ==
    (op.name = "new") =>
        /\ stack = <<Need(root)>>
        /\ out = <<>> /\ ops = <<>> /\ seen = {}
        /\ res = "Ok" /\ begun = <<0>>

\* a session over another schema was built from the alloc of a session
\* that had failed in begin_some and still held its frame
C18_Witness ==
    /\ op.name = "new"
    /\ prev # <<>>
    /\ top(prev).api_state = "AutoFinish"
    /\ top(prev).schema # root
    /\ stack = <<Need(root)>>

\* C19: round trip.  For every schema and every value conforming to it,
\* decoding under the schema the bytes that encoding the value produced
\* yields an equal value: every call of both traversals returns Ok, the
\* values decoded are the values encoded, and both sessions end finished.
C19_RoundTrip ==
    /\ res = "Ok"
    /\ plan = <<>> => is_finished
    /\ (api = "decoder" /\ plan = <<>>) => decoded = sent

\* C20: byte exhaustion.  When the decode has succeeded and
\* is_finished_or_err returns Ok, the decoder has taken from the source the
\* bytes the encode produced, all of them and none after them.
C20_ByteExhaustion ==
    (api = "decoder" /\ res = "Ok" /\ is_finished_or_err = "Ok") =>
        input = Trailer

\* C21: prefix rejection.  Decoding a valid encoding that lost its last byte
\* or more returns a decode error, or leaves the coder state not finished:
\* a finished decoder has seen an error.
C21_PrefixRejection ==
    (api = "decoder" /\ is_finished) => seen # {}

\* C22 (as claimed): schema mismatch detection.  The bytes encoded under a
\* schema S, given to a decoder constructed with a structurally different
\* schema, make it return an error, or yield a value whose re-encoding under
\* the decoder's schema differs from those bytes.
C22_MismatchDetected ==
    (api = "decoder" /\ is_finished /\ seen = {}) =>
        reencode(ops, decoded) # out

\* C22 (amended): the bytes encoded under a schema S, given to a decoder
\* constructed with a structurally different schema, make it return an
\* error, or yield a well-typed value of the decoder's schema: the calls
\* that succeeded are the traversal of one value conforming to it, with
\* simple values of their types.  Its re-encoding can equal the input.
C22_MismatchWellTyped ==
    (api = "decoder" /\ is_finished /\ seen = {}) =>
        /\ IsTraversal("decoder", root, ops)
        /\ well_typed(ops, decoded)

\* the encoding 02 01 of the u16 258 was decoded as the tuple (u8 2, u8 1)
C22_Witness ==
    /\ api = "decoder" /\ is_finished /\ seen = {}
    /\ root = Tuple(<<Scalar("U8"), Scalar("U8")>>)
    /\ out = <<2, 1>>
    /\ decoded = <<2, 1>>
    /\ reencode(ops, decoded) = out

\* a decode_bool call that passes the coder and finds a byte in the source
DecodeBoolReads ==
    /\ api = "decoder"
    /\ validate_need_eq(stack, schema("bool"))
    /\ input # <<>>
    /\ op' = Op("decode", "bool", "", 0, 0)

\* C25: decode_bool returns false for the byte 0 and true for the byte 1,
\* and a schema non-conformance error for any other byte.
C25_DecodeBoolNonConformance ==
    [][DecodeBoolReads =>
          IF Head(input) \in {0, 1}
          THEN res' = "Ok" /\ decoded' = Append(decoded, Head(input))
          ELSE res' = "SchemaNonConformance"]_vars

\* C24 (as claimed): finish_tuple on a tuple frame that has coded fewer
\* elements than the tuple's length returns an API usage error and does not
\* pop the frame.
C24_FinishTupleApiUsage ==
    (/\ CalledOn("finish_tuple", "Tuple")
     /\ top(prev).next < Len(top(prev).schema.inners)) =>
        (res = "ApiUsage" /\ stack = prev)

\* C24 (amended): finish_tuple on a tuple frame whose next index is below the
\* tuple's length returns the schema non-conformance error "finish tuple of
\* len k, but only encoded n elems" and does not pop the frame.
C24_FinishTupleEarly ==
    (/\ CalledOn("finish_tuple", "Tuple")
     /\ top(prev).next < Len(top(prev).schema.inners)) =>
        (res = "SchemaNonConformance" /\ stack = prev)

\* finish_tuple was refused after one element of a two-element tuple
C24_Witness ==
    /\ CalledOn("finish_tuple", "Tuple")
    /\ top(prev).next = 1
    /\ Len(top(prev).schema.inners) = 2
    /\ begunPrev[Len(prev)] = 1
    /\ res = "SchemaNonConformance"
    /\ stack = prev

\* an encoder call made on a Need frame over an Option schema
OnOption(name) ==
    /\ api = "encoder"
    /\ CalledOn(name, "Need")
    /\ top(prev).schema.kind = "Option"

\* C26: at a position whose schema is Option, encode_none writes the single
\* byte 0 and completes the option; begin_some writes the single byte 1,
\* marks the option frame AutoFinish and pushes the inner schema as Need.
\* Neither fails but through the sink, or for begin_some through an inner
\* Recurse that does not resolve.
C26_Option ==
    /\ OnOption("encode_none") =>
          \/ res = "Ok" /\ wrote = <<0>> /\ stack = Encoder_pop(prev)
          \/ res = "Io"
    /\ OnOption("begin_some") =>
          \/ /\ res = "Ok"
             /\ wrote = <<1>>
             /\ Front(stack) = SetTop(prev, "AutoFinish", 0, 0)
             /\ top(stack) = Need(BoundTo(top(prev).schema.inners[1], prev))
          \/ res = "Io"
          \/ /\ res = "InvalidSchema"
             /\ top(prev).schema.inners[1].kind = "Recurse"

\* some(some(..)) of option(option(str)) is under way: 01 01 is written and
\* the str is needed on top of two AutoFinish frames
C26_Witness ==
    /\ OnOption("begin_some")
    /\ res = "Ok"
    /\ out = <<1, 1>>
    /\ Len(stack) = 3
    /\ stack[2].api_state = "AutoFinish"
    /\ top(stack) = Need(Str)

\* number of calls named `name` in w
RECURSIVE Count(_, _)
Count(w, name) ==
    IF w = <<>>
    THEN 0
    ELSE (IF Head(w).name = name THEN 1 ELSE 0) + Count(Tail(w), name)

\* C27: a sequence of L elements is encoded as the L inner encodings, after
\* the varint of L when the Seq is of variable length and after nothing when
\* it is of fixed length: begin_seq writes that prefix and nothing else,
\* begin_seq_elem and finish_seq write nothing, and a finished root sequence
\* of simple elements has written the prefix and the L element encodings.
\* For L = 0 that is no byte (fixed) and the one byte 0 (variable).
C27_SeqEncoding ==
    api = "encoder" =>
    /\ (op.name = "begin_seq" /\ res = "Ok") =>
          wrote = IF top(prev).schema.len # <<>>
                  THEN <<>>
                  ELSE write_var_len_uint(op.len)
    /\ op.name \in {"begin_seq_elem", "finish_seq"} => wrote = <<>>
    /\ (/\ root.kind = "Seq" /\ is_finished /\ res = "Ok"
        /\ root.inners[1].kind \in {"Scalar", "Str", "Bytes", "Unit"}) =>
          /\ Count(ops, "begin_seq_elem") = ops[1].len
          /\ Len(sent) = ops[1].len
          /\ out = (IF root.len # <<>>
                    THEN <<>>
                    ELSE write_var_len_uint(ops[1].len))
                   \o reencode(ops, sent)

\* a variable-length sequence of two u32: 02, then 80 01 twice
C27_Witness ==
    /\ api = "encoder" /\ is_finished
    /\ root = SeqSchema(<<>>, Scalar("U32"))
    /\ out = <<2, 128, 1, 128, 1>>

\* C28: for an enum schema of N variants the encoder writes, and the decoder
\* consumes, before the variant's inner encoding exactly the ordinal-in-N
\* encoding of the variant index: ceil(log256(N)) bytes for N >= 2 and no
\* byte for N <= 1.
C28_OrdinalBytes ==
    [][/\ (/\ api = "encoder" /\ op'.name = "begin_enum" /\ res' = "Ok") =>
             wrote' = write_ord(op'.ord, Len(top(stack).schema.inners))
       /\ (/\ api = "decoder" /\ op'.name = "begin_enum_variant"
           /\ res' = "Ok") =>
             LET N == Len(top(stack).schema.inners) IN
             /\ Len(input) >= ord_width(N)
             /\ input' = SubSeq(input, ord_width(N) + 1, Len(input))]_vars

\* a back-edge of the schema of schemas was followed to the root enum
BackEdgeToRoot ==
    (pushed.called /\ pushed.req.kind = "Recurse") =>
        /\ pushed.req.n \in 1..3
        /\ top(stack) = Need(SchemaSchema)

\* C23: coding any Schema value against the schema of schemas succeeds and
\* ends finished, its recurse(1), recurse(2) and recurse(3) back-edges
\* resolving to the root enum at every nesting depth, and decoding the bytes
\* reproduces the Schema value.
C23_SelfCoding ==
    /\ res = "Ok"
    /\ BackEdgeToRoot
    /\ plan = <<>> => is_finished
    /\ (api = "decoder" /\ plan = <<>>) => decoded = sent

\* the encoding half of C23 alone
C23_SelfEncodes ==
    api = "encoder" =>
        /\ res = "Ok"
        /\ BackEdgeToRoot
        /\ plan = <<>> => is_finished

\* serialize_seq is called while a frame is on the stack
SerializeSeqCalled ==
    /\ plan # <<>>
    /\ Head(plan).name = "serialize_seq"
    /\ plan' = Tail(plan)
    /\ stack # <<>>

\* what serialize_seq does once it has a length: over a Seq of fixed length
\* begin_fixed_len_seq(len), over a Seq of variable length
\* begin_var_len_seq(len), over any other schema a schema non-conformance
\* error with the coder state as it was
InspectsSchema ==
    LET s == top(stack).schema
        len == Head(plan).len
    IN  CASE s.kind = "Seq" /\ s.len # <<>> ->
               /\ op' = Op("begin_fixed_len_seq", "", "", 0, len)
               /\ wrote' = <<>>
               /\ IF s.len = <<len>>
                  THEN res' = "Ok" /\ stack' = SetTop(stack, "Seq", len, 0)
                  ELSE res' = "SchemaNonConformance" /\ stack' = stack
          [] s.kind = "Seq" /\ s.len = <<>> ->
               /\ op' = Op("begin_var_len_seq", "", "", 0, len)
               /\ res' = "Ok"
               /\ wrote' = write_var_len_uint(len)
               /\ stack' = SetTop(stack, "Seq", len, 0)
          [] OTHER ->
               /\ res' = "SchemaNonConformance"
               /\ stack' = stack
               /\ out' = out
               /\ ops' = ops

\* C29 (as claimed): serialize_seq inspects the schema at the current top
\* frame: over a Seq of fixed length it issues begin_fixed_len_seq(len), over
\* a Seq of variable length it issues begin_var_len_seq(len), and over any
\* schema that is not a Seq it returns a schema non-conformance error and
\* leaves the coder state as it was.
C29_SerializeSeqInspects == [][SerializeSeqCalled => InspectsSchema]_vars

\* C29 (amended): serialize_seq called with Some(len) inspects the schema at
\* the current top frame as claimed; called with None it returns the error
\* "serialize_seq with None len" whatever the schema is, issues no encoder
\* call and leaves the coder state as it was.
C29_SerializeSeq ==
    [][SerializeSeqCalled =>
          IF Head(plan).ty = "Some"
          THEN InspectsSchema
          ELSE /\ op' = Op("serialize_seq", "None", "", 0, 0)
               /\ res' = "Other"
               /\ stack' = stack
               /\ wrote' = <<>>
               /\ out' = out
               /\ ops' = ops]_vars

\* serialize_seq(Some(2)) at an element of a Seq of fixed length 1 whose
\* inner schema is a Seq of variable length: begin_fixed_len_seq(1) went
\* first, begin_var_len_seq(2) second
C29_Witness ==
    /\ root = SeqSchema(<<1>>, SeqSchema(<<>>, Scalar("U32")))
    /\ ops = <<Op("begin_fixed_len_seq", "", "", 0, 1),
               Op("begin_seq_elem", "", "", 0, 0),
               Op("begin_var_len_seq", "", "", 0, 2)>>
    /\ res = "Ok"
    /\ out = <<2>>
    /\ Len(stack) = 2
    /\ top(stack).api_state = "Seq"

\* the last call was the call c of a value, and it was refused
Refused(c) ==
    /\ res # "Ok"
    /\ \/ op = c
       \/ /\ c.name \in {"serialize_seq", "serialize_map"}
          /\ c.ty = "Some"
          /\ op.name \in {"begin_fixed_len_seq", "begin_var_len_seq"}
          /\ op.len = c.len

\* the session serializes the value v: the calls made so far are v's first
\* calls, all of them accepted or the last of them refused
Serializing(v) ==
    LET w == serialize(v) IN
    \/ /\ res = "Ok"
       /\ Len(ops) <= Len(w)
       /\ plan = SubSeq(w, Len(ops) + 1, Len(w))
    \/ /\ Len(ops) < Len(w)
       /\ Refused(w[Len(ops) + 1])
       /\ plan = SubSeq(w, Len(ops) + 2, Len(w))

\* the operations C30 lists for a map of k entries
MapCalls(k, K, V) ==
    <<Op("begin_var_len_seq", "", "", 0, k)>>
    \o Repeat(<<Op("begin_seq_elem", "", "", 0, 0),
                Op("begin_tuple", "", "", 0, 0),
                Op("begin_tuple_elem", "", "", 0, 0),
                Op("encode", K, "", 0, 0),
                Op("begin_tuple_elem", "", "", 0, 0),
                Op("encode", V, "", 0, 0),
                Op("finish_tuple", "", "", 0, 0)>>, k)
    \o <<Op("finish_seq", "", "", 0, 0)>>

\* C30: serializing a map of k entries issues begin_var_len_seq(k), then
\* for each entry begin_seq_elem, begin_tuple, begin_tuple_elem, the key,
\* begin_tuple_elem, the value, finish_tuple, and then finish_seq; under a
\* variable-length Seq of two-element tuples (K, V) every one of these
\* operations is accepted and the map's frame is popped at the end.
C30_SerializeMap ==
    \A k \in 0..MaxSeqLen, V \in {"str", "u32"} :
        (/\ root = SeqSchema(<<>>, Tuple(<<Str, schema(V)>>))
         /\ Serializing(Serialized("map", <<k>>, k, "str", V))) =>
            /\ res = "Ok"
            /\ ops = SubSeq(MapCalls(k, "str", V), 1, Len(ops))
            /\ plan = <<>> =>
                  (ops = MapCalls(k, "str", V) /\ is_finished)

\* a map of two entries str -> u32 was serialized to the end
C30_Witness ==
    /\ root = SeqSchema(<<>>, Tuple(<<Str, Scalar("U32")>>))
    /\ ops = MapCalls(2, "str", "u32")
    /\ plan = <<>>
    /\ is_finished
    /\ res = "Ok"
    /\ Len(sent) = 4
    /\ Head(out) = 2

\* the struct frame a field's Need frame sits on, when the last call was
\* made on such a Need frame
FieldOf(st) == st[Len(st) - 1]

\* C31: skip_field(key) issues begin_struct_field(key) and then encode_none;
\* it succeeds only when key is the name of the next field and that field's
\* schema is an Option; skipping a field whose schema is not an Option fails
\* with a schema non-conformance error.
C31_SkipField ==
    /\ (api = "encoder" /\ CalledOn("begin_struct_field", "Struct")) =>
          /\ res = "Ok" =>
                /\ top(prev).next < Len(top(prev).schema.names)
                /\ top(prev).schema.names[top(prev).next + 1] = op.fname
          /\ (res = "Ok" /\ plan # <<>>
              /\ Head(plan).name \in {"encode_none", "encode"}) =>
                top(stack) =
                    Need(BoundTo(top(prev).schema.inners[top(prev).next + 1],
                                 Front(stack)))
    /\ (api = "encoder" /\ CalledOn("encode_none", "Need")
        /\ Len(prev) >= 2 /\ FieldOf(prev).api_state = "Struct") =>
          LET f == FieldOf(prev)
              field == BoundTo(f.schema.inners[f.next], Front(prev))
          IN  /\ ops[Len(ops) - (IF res = "Ok" THEN 1 ELSE 0)] =
                    Op("begin_struct_field", "", f.schema.names[f.next], 0, 0)
              /\ IF field.kind = "Option"
                 THEN res = "Ok" /\ wrote = <<0>>
                 ELSE res = "SchemaNonConformance" /\ wrote = <<>>

\* field a : option(str) was skipped, then field b : u32 was skipped and
\* refused
C31_Witness ==
    /\ root = Struct(<<"a", "b">>, <<Option(Str), Scalar("U32")>>)
    /\ op.name = "encode_none"
    /\ res = "SchemaNonConformance"
    /\ out = <<0>>
    /\ ops = <<Op("begin_struct", "", "", 0, 0)>>
               \o skip_field("a")
               \o <<Op("begin_struct_field", "", "b", 0, 0)>>
    /\ top(stack) = Need(Scalar("U32"))

\* C32: for the binary-tree schema enum { Leaf(i32), Branch { n: i32,
\* a: recurse(2), b: recurse(2) } } the frame pushed for the fields a and b
\* is bound to the root enum schema at every recursion depth, so the
\* operations of a tree of any depth within the bound are accepted and the
\* session ends finished.
C32_BinaryTree ==
    root = TreeSchema =>
        /\ res = "Ok"
        /\ (op.name = "begin_struct_field" /\ op.fname \in {"a", "b"}) =>
              /\ pushed.called
              /\ pushed.req = Recurse(2)
              /\ top(stack) = Need(TreeSchema)
        /\ plan = <<>> => is_finished

\* field b of a branch that is itself field b of the root branch was begun:
\* the frame pushed at depth 5 is Need over the root enum
C32_Witness ==
    /\ root = TreeSchema
    /\ op = Op("begin_struct_field", "", "b", 0, 0)
    /\ res = "Ok"
    /\ Len(stack) = 5
    /\ stack[4].api_state = "Struct"
    /\ stack[2].next = 3
    /\ top(stack) = Need(TreeSchema)

\* the last call was a value-coding or begin-container operation
ValueOrBeginOp ==
    op.name \in {"code", "encode", "encode_none", "begin_some", "begin_seq",
                 "begin_tuple", "begin_struct", "begin_enum"}

\* C33: a value-coding or begin-container operation issued while the top
\* frame is a Seq, Tuple, Struct or Enum frame awaiting an element, field or
\* variant returns an API usage error, not a schema non-conformance error.
C33_ApiUsageOnContainer ==
    (/\ ValueOrBeginOp
     /\ prev # <<>>
     /\ top(prev).api_state \in {"Seq", "Tuple", "Struct", "Enum"}) =>
        res = "ApiUsage"

\* code_u8 directly after begin_struct
C33_Witness ==
    /\ api = "coder"
    /\ ops = <<Op("begin_struct", "", "", 0, 0)>>
    /\ op = Op("code", "u8", "", 0, 0)
    /\ top(prev).api_state = "Struct"
    /\ top(prev).next = 0
    /\ res = "ApiUsage"

\* the last call was finish_seq, finish_tuple or finish_struct, made while
\* an element of that container was begun and not yet coded: the top frame
\* was the element's Need frame, on the container's frame
FinishMidElement ==
    /\ op.name \in {"finish_seq", "finish_tuple", "finish_struct"}
    /\ Len(prev) >= 2
    /\ top(prev).api_state = "Need"
    /\ prev[Len(prev) - 1].api_state =
           (CASE op.name = "finish_seq" -> "Seq"
              [] op.name = "finish_tuple" -> "Tuple"
              [] op.name = "finish_struct" -> "Struct")

\* C34 as stated: calling finish_seq, finish_tuple or finish_struct while
\* one of the container's elements has been begun but not yet coded returns
\* an API usage error.
C34_FinishMidElementApiUsage ==
    FinishMidElement => res = "ApiUsage"

\* C34, amended: calling finish_seq, finish_tuple or finish_struct while one
\* of the container's elements has been begun but not yet coded returns a
\* schema non-conformance error, and the stack stays as it was.
C34_FinishMidElement ==
    FinishMidElement => (res = "SchemaNonConformance" /\ stack = prev)

\* finish_seq right after begin_seq_elem of a sequence's first element
C34_Witness ==
    /\ api = "encoder"
    /\ op.name = "finish_seq"
    /\ FinishMidElement
    /\ prev[Len(prev) - 1].next = 1
    /\ ops[Len(ops)] = Op("begin_seq_elem", "", "", 0, 0)
    /\ res = "SchemaNonConformance"
    /\ stack = prev

\* C35: in every state reachable by any sequence of operations, successful
\* or failing, on any schema (schemas with invalid Recurse edges included),
\* the top frame is never in state AutoFinish between operations, so the
\* unreachable!() arm of validate_top is never executed.
C35_TopNeverAutoFinish ==
    /\ stack # <<>> => top(stack).api_state # "AutoFinish"
    /\ res # "Panic"

\* C35 on the roots whose Recurse edges all resolve
C35_ValidRoots ==
    root \in ValidRoots =>
        /\ stack # <<>> => top(stack).api_state # "AutoFinish"
        /\ res # "Panic"

\* C36: any coder operation that returns an error leaves the frame stack
\* exactly as it was before the call: the same frames, with the same
\* api_state and the same next indices.
C36_ErrorLeavesStack ==
    (op.name # "new" /\ res \notin {"Ok", "Panic"}) => stack = prev

\* C36 on the roots whose Recurse edges all resolve
C36_ValidRoots ==
    (root \in ValidRoots /\ op.name # "new" /\ res \notin {"Ok", "Panic"}) =>
        stack = prev

\* C37: in every reachable state each frame's api_state agrees with the
\* kind of its schema: a Seq frame is bound to a Schema::Seq, a Tuple frame
\* to a Schema::Tuple, a Struct frame to a Schema::Struct and an Enum frame
\* to a Schema::Enum, so no match_or_unreachable! reaches unreachable!().
C37_StateAgreesWithSchema ==
    \A i \in 1..Len(stack) :
        stack[i].api_state \in {"Seq", "Tuple", "Struct", "Enum"} =>
            stack[i].schema.kind = stack[i].api_state

\* a Seq frame on a Struct frame, an element of the sequence begun
C37_Witness ==
    /\ Len(stack) = 3
    /\ stack[1].api_state = "Struct" /\ stack[1].schema.kind = "Struct"
    /\ stack[2].api_state = "Seq" /\ stack[2].schema.kind = "Seq"
    /\ stack[3].api_state = "Need"
    /\ op.name = "begin_seq_elem"
    /\ res = "Ok"

\* C38: in every reachable state only the top frame can be in state Need or
\* Enum; every frame below the top is in state AutoFinish, or in state Seq,
\* Tuple or Struct with next >= 1 (it has a child in progress).
C38_OnlyTopNeeds ==
    \A i \in 1..(Len(stack) - 1) :
        \/ stack[i].api_state = "AutoFinish"
        \/ /\ stack[i].api_state \in {"Seq", "Tuple", "Struct"}
           /\ stack[i].next >= 1

\* the second field of a struct in progress under an enum variant: an
\* AutoFinish frame and a Struct frame with next = 2 below a Need frame
C38_Witness ==
    /\ Len(stack) = 3
    /\ stack[1].api_state = "AutoFinish"
    /\ stack[2].api_state = "Struct" /\ stack[2].next = 2
    /\ stack[3].api_state = "Need"
    /\ op.name = "begin_struct_field"
    /\ res = "Ok"

\* C39: in every reachable state a Tuple frame's next is at most the
\* tuple's element count, a Struct frame's next is at most the struct's field
\* count, and a Seq frame's count of begun elements is at most its declared
\* length.
C39_NextWithinCount ==
    \A i \in 1..Len(stack) :
        /\ stack[i].api_state \in {"Tuple", "Struct"} =>
              stack[i].next <= Len(stack[i].schema.inners)
        /\ stack[i].api_state = "Seq" => stack[i].next <= stack[i].len

\* the last element of a sequence of declared length 2 was coded: the Seq
\* frame is on top with both elements begun
C39_Witness ==
    /\ stack # <<>>
    /\ top(stack).api_state = "Seq"
    /\ top(stack).len = 2
    /\ top(stack).next = 2
    /\ op.name = "encode"
    /\ res = "Ok"

\* the resolution loop of the last push_need call, followed for one
\* iteration more than the stack had frames
LastLoop == resolve_loop(prev, pushed.req, Len(prev), Len(prev) + 1)

\* C40: push_need terminates for every schema and every stack, chains of
\* Recurse nodes and a Recurse root schema included: each iteration of its
\* resolution loop strictly decreases the stack index, the loop runs at
\* most stack-length iterations, and it never indexes the stack out of
\* bounds.
C40_PushNeedTerminates ==
    op.name = "push_need" =>
        /\ LastLoop.ended
        /\ Len(LastLoop.idx) <= Len(prev)
        /\ \A k \in 1..Len(LastLoop.idx) :
              /\ LastLoop.idx[k] \in 0..(Len(prev) - 1)
              /\ LastLoop.idx[k] <
                    (IF k = 1 THEN Len(prev) ELSE LastLoop.idx[k - 1])
        /\ res \in {"Ok", "InvalidSchema"}
        /\ res = "Ok" <=> LastLoop.ok
        /\ res = "Ok" => stack = Append(prev, Need(LastLoop.schema))

\* a chain: Recurse(2) on a stack of two frames reads the root frame, whose
\* schema is Recurse(1), and the second iteration finds no frame below it
C40_Witness ==
    /\ op.name = "push_need"
    /\ Len(prev) = 2
    /\ prev[1].schema = Recurse(1)
    /\ pushed.req = Recurse(2)
    /\ LastLoop.idx = <<0>>
    /\ res = "InvalidSchema"
    /\ stack = prev

====
